---- MODULE Spec2Model ----
(***************************************************************************)
(* Model of the Syncro MCP server: the navigation state machine            *)
(* (index.ts), the domain handler registry (domains/index.ts), the          *)
(* credential resolver and client cache (utils/client.ts) and the HTTP      *)
(* request router (index.ts, startHttpTransport).                           *)
(*                                                                         *)
(* Texts are modelled as sequences of tokens: a template literal is the     *)
(* sequence of its literal pieces and interpolated values, and              *)
(* Array.join is the sequence of the elements with the separator between.   *)
(***************************************************************************)
EXTENDS Integers, Sequences, FiniteSets, TLC

\* ------------------------------------------------------------------ bounds
\* number of client instances the model lets the program construct
MaxHandles == 3
\* number of protocol requests the concurrent specifications let arrive
MaxRequests == 3

\* ------------------------------------------------------------- value sets
NULL == "null"
\* an environment variable or header that is not set (JS undefined)
UNSET == "undefined"
\* the argument bag of a tool call is absent (request.params.arguments undefined)
ArgsAbsent == "<no arguments>"

ApiKeys == {"k1", "k2"}
Subdomains == {"s1"}
EnvApiKeyValues == {UNSET, ""} \cup ApiKeys
EnvSubdomainValues == {UNSET} \cup Subdomains

NullCreds == [apiKey |-> NULL, subdomain |-> NULL]
NullClient == [id |-> -1, apiKey |-> NULL, subdomain |-> NULL]
NoHandler == "none"

\* messages with which a remote API call can fail
RemoteErrors ==
    {"Ticket not found", "ETIMEDOUT",
     "Rate limit exceeded. Please retry after 60 seconds."}
RemoteOutcomes == {"ok"} \cup RemoteErrors

\* ---------------------------------------------------------------- helpers
RECURSIVE Join(_, _)
Join(seq, sep) ==
    IF Len(seq) = 0 THEN << >>
    ELSE IF Len(seq) = 1 THEN <<seq[1]>>
    ELSE <<seq[1], sep>> \o Join(Tail(seq), sep)

Range(seq) == {seq[i] : i \in 1..Len(seq)}

\* sub occurs in seq as a contiguous run
Contains(seq, sub) ==
    \E i \in 0..(Len(seq) - Len(sub)) :
        \A j \in 1..Len(sub) : seq[i + j] = sub[j]

\* ------------------------------------------------------- utils/types.ts
DomainNames == {"customers", "tickets", "assets", "contacts", "invoices"}

\* only checks that a domain was given
IsDomainName_unchecked(value) ==
    value # UNSET

IsDomainName(value) ==
    value \in {"customers", "tickets", "assets", "contacts", "invoices"}

\* ------------------------------------------------------ domains/index.ts
\* the list lacks invoices
GetAvailableDomains_withoutInvoices ==
    <<"customers", "tickets", "assets", "contacts">>

\* getAvailableDomains(): a new array with the same elements on every call
GetAvailableDomains ==
    <<"customers", "tickets", "assets", "contacts", "invoices">>

\* ------------------------------------------------- domains/<domain>.ts
Handlers == {"customersHandler", "ticketsHandler", "assetsHandler",
             "contactsHandler", "invoicesHandler"}

\* the customers handler also lists a tickets tool
customers_getTools_withTicketsList ==
    <<"syncro_customers_list", "syncro_customers_get",
      "syncro_customers_create", "syncro_customers_search",
      "syncro_tickets_list">>

\* getTools() of each handler: the tool names, in declaration order
customers_getTools ==
    <<"syncro_customers_list", "syncro_customers_get",
      "syncro_customers_create", "syncro_customers_search">>
tickets_getTools ==
    <<"syncro_tickets_list", "syncro_tickets_get", "syncro_tickets_create",
      "syncro_tickets_update", "syncro_tickets_add_comment">>
assets_getTools ==
    <<"syncro_assets_list", "syncro_assets_get", "syncro_assets_search">>
contacts_getTools ==
    <<"syncro_contacts_list", "syncro_contacts_get",
      "syncro_contacts_create">>
invoices_getTools ==
    <<"syncro_invoices_list", "syncro_invoices_get",
      "syncro_invoices_create", "syncro_invoices_email">>

\* the case labels of each handler's handleCall switch
customers_cases ==
    {"syncro_customers_list", "syncro_customers_get",
     "syncro_customers_create", "syncro_customers_search"}
tickets_cases ==
    {"syncro_tickets_list", "syncro_tickets_get", "syncro_tickets_create",
     "syncro_tickets_update", "syncro_tickets_add_comment"}
assets_cases ==
    {"syncro_assets_list", "syncro_assets_get", "syncro_assets_search"}
contacts_cases ==
    {"syncro_contacts_list", "syncro_contacts_get", "syncro_contacts_create"}
invoices_cases ==
    {"syncro_invoices_list", "syncro_invoices_get",
     "syncro_invoices_create", "syncro_invoices_email"}

\* handler.getTools()
HandlerTools(h) ==
    CASE h = "customersHandler" -> customers_getTools
      [] h = "ticketsHandler" -> tickets_getTools
      [] h = "assetsHandler" -> assets_getTools
      [] h = "contactsHandler" -> contacts_getTools
      [] h = "invoicesHandler" -> invoices_getTools

HandlerCases(h) ==
    CASE h = "customersHandler" -> customers_cases
      [] h = "ticketsHandler" -> tickets_cases
      [] h = "assetsHandler" -> assets_cases
      [] h = "contactsHandler" -> contacts_cases
      [] h = "invoicesHandler" -> invoices_cases

\* the noun of each handler's "Unknown <noun> tool" message
HandlerNoun(h) ==
    CASE h = "customersHandler" -> "customer"
      [] h = "ticketsHandler" -> "ticket"
      [] h = "assetsHandler" -> "asset"
      [] h = "contactsHandler" -> "contact"
      [] h = "invoicesHandler" -> "invoice"

\* -------------------------------------------------------- utils/client.ts
\* A program state is a record
\*   [currentDomain, env, domainCache, client, credentials, nextHandle]
\* and every function of the program is an operator from a state (and its
\* arguments) to the state it leaves and what it returns or throws.

\* treats only an unset key as absent, not an empty one
GetCredentials_undefinedOnly(env) ==
    IF env.apiKey = UNSET
    THEN NullCreds
    ELSE [apiKey |-> env.apiKey, subdomain |-> env.subdomain]

\* getCredentials(): reads process.env
GetCredentials(env) ==
    IF env.apiKey = UNSET \/ env.apiKey = ""
    THEN NullCreds
    ELSE [apiKey |-> env.apiKey, subdomain |-> env.subdomain]

NoCredentialsMessage ==
    <<"No API credentials provided. Please configure SYNCRO_API_KEY environment variable.">>

\* compares the API key only
CredentialsChanged_keyOnly(s, creds) ==
    /\ s.client # NullClient
    /\ s.credentials # NullCreds
    /\ creds.apiKey # s.credentials.apiKey

\* the test of lines 88-93: a cached client exists and the tuple changed
CredentialsChanged(s, creds) ==
    /\ s.client # NullClient
    /\ s.credentials # NullCreds
    /\ (creds.apiKey # s.credentials.apiKey
        \/ creds.subdomain # s.credentials.subdomain)

\* hands out the cached client when no credentials are resolvable
GetClient_fallsBackToCached(s) ==
    LET creds == GetCredentials(s.env) IN
    IF creds = NullCreds
    THEN IF s.client # NullClient
         THEN [s |-> s, threw |-> FALSE, msg |-> << >>, handle |-> s.client]
         ELSE [s |-> s, threw |-> TRUE, msg |-> NoCredentialsMessage,
               handle |-> NullClient]
    ELSE
      LET invalidate == CredentialsChanged(s, creds)
          s1 == IF invalidate
                THEN [s EXCEPT !.client = NullClient]
                ELSE s
      IN
      IF s1.client = NullClient
      THEN LET made == [id |-> s1.nextHandle, apiKey |-> creds.apiKey,
                        subdomain |-> creds.subdomain]
               s2 == [s1 EXCEPT !.client = made, !.credentials = creds,
                                !.nextHandle = @ + 1]
           IN [s |-> s2, threw |-> FALSE, msg |-> << >>, handle |-> made]
      ELSE [s |-> s1, threw |-> FALSE, msg |-> << >>, handle |-> s1.client]

\* getClient(): [s, threw, msg, handle]
GetClient(s) ==
    LET creds == GetCredentials(s.env) IN
    IF creds = NullCreds
    THEN [s |-> s, threw |-> TRUE, msg |-> NoCredentialsMessage,
          handle |-> NullClient]
    ELSE
      LET invalidate == CredentialsChanged(s, creds)
          s1 == IF invalidate
                THEN [s EXCEPT !.client = NullClient]
                ELSE s
      IN
      IF s1.client = NullClient
      THEN LET made == [id |-> s1.nextHandle, apiKey |-> creds.apiKey,
                        subdomain |-> creds.subdomain]
               s2 == [s1 EXCEPT !.client = made, !.credentials = creds,
                                !.nextHandle = @ + 1]
           IN [s |-> s2, threw |-> FALSE, msg |-> << >>, handle |-> made]
      ELSE [s |-> s1, threw |-> FALSE, msg |-> << >>, handle |-> s1.client]

\* forgets the tuple but keeps the handle
ClearClient_keepsHandle(s) ==
    [s EXCEPT !.credentials = NullCreds]

\* clearClient()
ClearClient(s) ==
    [s EXCEPT !.client = NullClient, !.credentials = NullCreds]

\* ------------------------------------------------------ domains/index.ts
\* the assets case imports the contacts module
ImportHandler_swapped(domain) ==
    CASE domain = "customers" -> "customersHandler"
      [] domain = "tickets" -> "ticketsHandler"
      [] domain = "assets" -> "contactsHandler"
      [] domain = "contacts" -> "contactsHandler"
      [] domain = "invoices" -> "invoicesHandler"
      [] OTHER -> NoHandler

\* the switch has no case for invoices
ImportHandler_missingCase(domain) ==
    CASE domain = "customers" -> "customersHandler"
      [] domain = "tickets" -> "ticketsHandler"
      [] domain = "assets" -> "assetsHandler"
      [] domain = "contacts" -> "contactsHandler"
      [] OTHER -> NoHandler

\* the switch of getDomainHandler: which module each domain imports
ImportHandler(domain) ==
    CASE domain = "customers" -> "customersHandler"
      [] domain = "tickets" -> "ticketsHandler"
      [] domain = "assets" -> "assetsHandler"
      [] domain = "contacts" -> "contactsHandler"
      [] domain = "invoices" -> "invoicesHandler"
      [] OTHER -> NoHandler

\* loads the handler on every miss but never stores it
GetDomainHandler_noStore(s, domain) ==
    LET cached == IF domain \in DOMAIN s.domainCache
                  THEN s.domainCache[domain] ELSE NoHandler
    IN
    IF cached # NoHandler
    THEN [s |-> s, threw |-> FALSE, msg |-> << >>, handler |-> cached]
    ELSE
      LET handler == ImportHandler(domain) IN
      IF handler = NoHandler
      THEN [s |-> s, threw |-> TRUE, msg |-> <<"Unknown domain: ", domain>>,
            handler |-> NoHandler]
      ELSE [s |-> s, threw |-> FALSE, msg |-> << >>, handler |-> handler]

\* getDomainHandler(domain): [s, threw, msg, handler]
GetDomainHandler(s, domain) ==
    LET cached == IF domain \in DOMAIN s.domainCache
                  THEN s.domainCache[domain] ELSE NoHandler
    IN
    IF cached # NoHandler
    THEN [s |-> s, threw |-> FALSE, msg |-> << >>, handler |-> cached]
    ELSE
      LET handler == ImportHandler(domain) IN
      IF handler = NoHandler
      THEN [s |-> s, threw |-> TRUE, msg |-> <<"Unknown domain: ", domain>>,
            handler |-> NoHandler]
      ELSE [s |-> [s EXCEPT !.domainCache[domain] = handler],
            threw |-> FALSE, msg |-> << >>, handler |-> handler]

\* also returns the navigation to the root
ClearDomainCache_resetsNavigation(s) ==
    [s EXCEPT !.domainCache = [d \in DomainNames |-> NoHandler],
              !.currentDomain = NULL]

\* also drops the cached client
ClearDomainCache_alsoClient(s) ==
    [s EXCEPT !.domainCache = [d \in DomainNames |-> NoHandler],
              !.client = NullClient, !.credentials = NullCreds]

\* clearDomainCache()
ClearDomainCache(s) ==
    [s EXCEPT !.domainCache = [d \in DomainNames |-> NoHandler]]

\* ------------------------------------------------- domains/<domain>.ts
TypeErrorMessage == <<"Cannot read properties of undefined">>

\* the default branch of the switch throws
HandleCall_defaultThrows(s, h, toolName, arg, outcome) ==
    LET g == GetClient(s) IN
    IF g.threw
    THEN [s |-> g.s, threw |-> TRUE, msg |-> g.msg, isError |-> FALSE,
          text |-> << >>, remote |-> 0, used |-> NullClient]
    ELSE IF toolName \in HandlerCases(h)
    THEN IF arg = ArgsAbsent
         THEN [s |-> g.s, threw |-> TRUE, msg |-> TypeErrorMessage,
               isError |-> FALSE, text |-> << >>, remote |-> 0,
               used |-> NullClient]
         ELSE IF outcome = "ok"
         THEN [s |-> g.s, threw |-> FALSE, msg |-> << >>, isError |-> FALSE,
               text |-> <<"JSON of the response of ", toolName>>,
               remote |-> 1, used |-> g.handle]
         ELSE [s |-> g.s, threw |-> TRUE, msg |-> <<outcome>>,
               isError |-> FALSE, text |-> << >>, remote |-> 1,
               used |-> g.handle]
    ELSE [s |-> g.s, threw |-> TRUE,
          msg |-> <<"Unknown ", HandlerNoun(h), " tool: ", toolName>>,
          isError |-> FALSE, text |-> << >>,
          remote |-> 0, used |-> NullClient]

\* issues the remote call a second time when it fails
HandleCall_retryOnce(s, h, toolName, arg, outcome) ==
    LET g == GetClient(s) IN
    IF g.threw
    THEN [s |-> g.s, threw |-> TRUE, msg |-> g.msg, isError |-> FALSE,
          text |-> << >>, remote |-> 0, used |-> NullClient]
    ELSE IF toolName \in HandlerCases(h)
    THEN IF arg = ArgsAbsent
         THEN [s |-> g.s, threw |-> TRUE, msg |-> TypeErrorMessage,
               isError |-> FALSE, text |-> << >>, remote |-> 0,
               used |-> NullClient]
         ELSE IF outcome = "ok"
         THEN [s |-> g.s, threw |-> FALSE, msg |-> << >>, isError |-> FALSE,
               text |-> <<"JSON of the response of ", toolName>>,
               remote |-> 1, used |-> g.handle]
         ELSE [s |-> g.s, threw |-> TRUE, msg |-> <<outcome>>,
               isError |-> FALSE, text |-> << >>, remote |-> 2,
               used |-> g.handle]
    ELSE [s |-> g.s, threw |-> FALSE, msg |-> << >>, isError |-> TRUE,
          text |-> <<"Unknown ", HandlerNoun(h), " tool: ", toolName>>,
          remote |-> 0, used |-> NullClient]

\* handler.handleCall(toolName, args):
\*   [s, threw, msg, isError, text, remote, used]
\* remote is the number of remote API calls issued, used the client handle
\* they were issued on
HandleCall(s, h, toolName, arg, outcome) ==
    LET g == GetClient(s) IN
    IF g.threw
    THEN [s |-> g.s, threw |-> TRUE, msg |-> g.msg, isError |-> FALSE,
          text |-> << >>, remote |-> 0, used |-> NullClient]
    ELSE IF toolName \in HandlerCases(h)
    THEN IF arg = ArgsAbsent
         THEN \* args.<field> is read before the remote call is issued
              [s |-> g.s, threw |-> TRUE, msg |-> TypeErrorMessage,
               isError |-> FALSE, text |-> << >>, remote |-> 0,
               used |-> NullClient]
         ELSE IF outcome = "ok"
         THEN [s |-> g.s, threw |-> FALSE, msg |-> << >>, isError |-> FALSE,
               text |-> <<"JSON of the response of ", toolName>>,
               remote |-> 1, used |-> g.handle]
         ELSE [s |-> g.s, threw |-> TRUE, msg |-> <<outcome>>,
               isError |-> FALSE, text |-> << >>, remote |-> 1,
               used |-> g.handle]
    ELSE [s |-> g.s, threw |-> FALSE, msg |-> << >>, isError |-> TRUE,
          text |-> <<"Unknown ", HandlerNoun(h), " tool: ", toolName>>,
          remote |-> 0, used |-> NullClient]

\* --------------------------------------------------------------- index.ts
navigateTool == "syncro_navigate"
backTool == "syncro_back"
statusTool == "syncro_status"

\* lists the domain's tools only when its handler is already cached
GetToolsForState_cachedOnly(s) ==
    IF s.currentDomain = NULL
    THEN [s |-> s, threw |-> FALSE, msg |-> << >>,
          tools |-> <<navigateTool, statusTool>>]
    ELSE IF s.domainCache[s.currentDomain] = NoHandler
    THEN [s |-> s, threw |-> FALSE, msg |-> << >>,
          tools |-> <<backTool, statusTool>>]
    ELSE [s |-> s, threw |-> FALSE, msg |-> << >>,
          tools |-> <<backTool, statusTool>>
                      \o HandlerTools(s.domainCache[s.currentDomain])]

\* getToolsForState(): [s, threw, msg, tools]
GetToolsForState(s) ==
    IF s.currentDomain = NULL
    THEN [s |-> s, threw |-> FALSE, msg |-> << >>,
          tools |-> <<navigateTool, statusTool>>]
    ELSE
      LET r == GetDomainHandler(s, s.currentDomain) IN
      IF r.threw
      THEN [s |-> r.s, threw |-> TRUE, msg |-> r.msg, tools |-> << >>]
      ELSE [s |-> r.s, threw |-> FALSE, msg |-> << >>,
            tools |-> <<backTool, statusTool>> \o HandlerTools(r.handler)]

\* a tool result: [s, isError, text, remote, used]
Result(s, isError, text, remote, used) ==
    [s |-> s, isError |-> isError, text |-> text, remote |-> remote,
     used |-> used]

\* reports a fixed text instead of the error's message
Caught_fixedText(s, msg, remote, used) ==
    Result(s, TRUE, <<"Error: ", "Internal error">>, remote, used)

\* the catch clause of the CallTool handler
Caught(s, msg, remote, used) ==
    Result(s, TRUE, <<"Error: ">> \o msg, remote, used)

NoCredentialsConfiguredText ==
    <<"Error: No API credentials configured. Please set SYNCRO_API_KEY environment variable.">>

\* assigns currentDomain before the credential check
Navigate_assignFirst(s, arg) ==
    IF arg = ArgsAbsent
    THEN Caught(s, TypeErrorMessage, 0, NullClient)
    ELSE
      LET domain == arg IN
      IF ~IsDomainName(domain)
      THEN Result(s, TRUE,
                  <<"Invalid domain: ", domain, ". Available domains: ">>
                      \o Join(GetAvailableDomains, ", "),
                  0, NullClient)
      ELSE
        LET s1 == [s EXCEPT !.currentDomain = domain] IN
        IF GetCredentials(s.env) = NullCreds
        THEN Result(s1, TRUE, NoCredentialsConfiguredText, 0, NullClient)
        ELSE
          LET r == GetDomainHandler(s1, domain) IN
          IF r.threw
          THEN Caught(r.s, r.msg, 0, NullClient)
          ELSE Result(r.s, FALSE,
                      <<"Navigated to ", domain, " domain.\n\nAvailable tools:\n">>
                          \o Join(HandlerTools(r.handler), "\n")
                          \o <<"\n\nUse syncro_back to return to the main menu.">>,
                      0, NullClient)

\* the syncro_navigate branch
Navigate(s, arg) ==
    IF arg = ArgsAbsent
    THEN Caught(s, TypeErrorMessage, 0, NullClient)
    ELSE
      LET domain == arg IN
      IF ~IsDomainName(domain)
      THEN Result(s, TRUE,
                  <<"Invalid domain: ", domain, ". Available domains: ">>
                      \o Join(GetAvailableDomains, ", "),
                  0, NullClient)
      ELSE IF GetCredentials(s.env) = NullCreds
      THEN Result(s, TRUE, NoCredentialsConfiguredText, 0, NullClient)
      ELSE
        LET s1 == [s EXCEPT !.currentDomain = domain]
            r == GetDomainHandler(s1, domain)
        IN
        IF r.threw
        THEN Caught(r.s, r.msg, 0, NullClient)
        ELSE Result(r.s, FALSE,
                    <<"Navigated to ", domain, " domain.\n\nAvailable tools:\n">>
                        \o Join(HandlerTools(r.handler), "\n")
                        \o <<"\n\nUse syncro_back to return to the main menu.">>,
                    0, NullClient)

\* refuses to go back when already at the root
Back_rejectAtRoot(s) ==
    IF s.currentDomain = NULL
    THEN Result(s, TRUE, <<"Already at the main menu.">>, 0, NullClient)
    ELSE Result([s EXCEPT !.currentDomain = NULL], FALSE,
                <<"Navigated back from ", s.currentDomain,
                  " to the main menu.\n\nAvailable domains: ">>
                    \o Join(GetAvailableDomains, ", ")
                    \o <<"\n\nUse syncro_navigate to select a domain.">>,
                0, NullClient)

\* the syncro_back branch
Back(s) ==
    LET previousDomain == s.currentDomain IN
    Result([s EXCEPT !.currentDomain = NULL], FALSE,
           <<"Navigated back from ",
             IF previousDomain = NULL THEN "root" ELSE previousDomain,
             " to the main menu.\n\nAvailable domains: ">>
               \o Join(GetAvailableDomains, ", ")
               \o <<"\n\nUse syncro_navigate to select a domain.">>,
           0, NullClient)

\* reports the credentials the client cache holds, not the resolved ones
Status_cachedCredentials(s) ==
    LET creds == s.credentials
        credStatus ==
            IF creds # NullCreds
            THEN <<"Configured">>
                   \o (IF creds.subdomain # UNSET /\ creds.subdomain # ""
                       THEN <<" (subdomain: ", creds.subdomain, ")">>
                       ELSE << >>)
            ELSE <<"NOT CONFIGURED - Please set SYNCRO_API_KEY environment variable">>
    IN
    Result(s, FALSE,
           <<"Syncro MCP Server Status\n\nCurrent domain: ",
             IF s.currentDomain = NULL THEN "(none - at main menu)"
             ELSE s.currentDomain,
             "\nCredentials: ">>
               \o credStatus
               \o <<"\nAvailable domains: ">>
               \o Join(GetAvailableDomains, ", ")
               \o <<"\nRate limit: 180 requests/minute">>,
           0, NullClient)

\* the syncro_status branch
Status(s) ==
    LET creds == GetCredentials(s.env)
        credStatus ==
            IF creds # NullCreds
            THEN <<"Configured">>
                   \o (IF creds.subdomain # UNSET /\ creds.subdomain # ""
                       THEN <<" (subdomain: ", creds.subdomain, ")">>
                       ELSE << >>)
            ELSE <<"NOT CONFIGURED - Please set SYNCRO_API_KEY environment variable">>
    IN
    Result(s, FALSE,
           <<"Syncro MCP Server Status\n\nCurrent domain: ",
             IF s.currentDomain = NULL THEN "(none - at main menu)"
             ELSE s.currentDomain,
             "\nCredentials: ">>
               \o credStatus
               \o <<"\nAvailable domains: ">>
               \o Join(GetAvailableDomains, ", ")
               \o <<"\nRate limit: 180 requests/minute">>,
           0, NullClient)

\* the "Tool not found" result
ToolNotFound(s, name) ==
    Result(s, TRUE,
           IF s.currentDomain # NULL
           THEN <<"Unknown tool: ", name, ". You are currently in the ",
                  s.currentDomain,
                  " domain. Use syncro_back to return to the main menu.">>
           ELSE <<"Unknown tool: ", name,
                  ". Use syncro_navigate to select a domain first.">>,
           0, NullClient)

\* looks the tool up in every domain, not only in the selected one
DomainTool_anyDomain(s, name, arg, outcome) ==
    LET owners == {d \in DomainNames :
                      name \in Range(HandlerTools(ImportHandler(d)))}
    IN
    IF owners # {}
    THEN
      LET r == GetDomainHandler(s, CHOOSE d \in owners : TRUE)
          hc == HandleCall(r.s, r.handler, name, arg, outcome)
      IN
      IF hc.threw
      THEN Caught(hc.s, hc.msg, hc.remote, hc.used)
      ELSE Result(hc.s, hc.isError, hc.text, hc.remote, hc.used)
    ELSE ToolNotFound(s, name)

\* the domain-specific branch
DomainTool(s, name, arg, outcome) ==
    IF s.currentDomain # NULL
    THEN
      LET r == GetDomainHandler(s, s.currentDomain) IN
      IF r.threw
      THEN Caught(r.s, r.msg, 0, NullClient)
      ELSE
        LET toolExists == name \in Range(HandlerTools(r.handler)) IN
        IF toolExists
        THEN LET hc == HandleCall(r.s, r.handler, name, arg, outcome) IN
             IF hc.threw
             THEN Caught(hc.s, hc.msg, hc.remote, hc.used)
             ELSE Result(hc.s, hc.isError, hc.text, hc.remote, hc.used)
        ELSE ToolNotFound(r.s, name)
    ELSE ToolNotFound(s, name)

\* the CallToolRequestSchema handler
CallTool(s, name, arg, outcome) ==
    IF name = "syncro_navigate" THEN Navigate(s, arg)
    ELSE IF name = "syncro_back" THEN Back(s)
    ELSE IF name = "syncro_status" THEN Status(s)
    ELSE DomainTool(s, name, arg, outcome)

\* accepts an empty API-key header
ApplyGatewayCredentials_acceptsEmpty(s, hdrKey, hdrSub) ==
    IF hdrKey = UNSET
    THEN [s |-> s, ok |-> FALSE]
    ELSE
      LET s1 == [s EXCEPT !.env.apiKey = hdrKey]
          s2 == IF hdrSub # UNSET /\ hdrSub # ""
                THEN [s1 EXCEPT !.env.subdomain = hdrSub]
                ELSE s1
      IN [s |-> s2, ok |-> TRUE]

\* applies the subdomain header before it tests the API key
ApplyGatewayCredentials_subdomainFirst(s, hdrKey, hdrSub) ==
    LET s0 == IF hdrSub # UNSET /\ hdrSub # ""
              THEN [s EXCEPT !.env.subdomain = hdrSub]
              ELSE s
    IN
    IF hdrKey = UNSET \/ hdrKey = ""
    THEN [s |-> s0, ok |-> FALSE]
    ELSE [s |-> [s0 EXCEPT !.env.apiKey = hdrKey], ok |-> TRUE]

\* applyGatewayCredentials(req): [s, ok]
ApplyGatewayCredentials(s, hdrKey, hdrSub) ==
    IF hdrKey = UNSET \/ hdrKey = ""
    THEN [s |-> s, ok |-> FALSE]
    ELSE
      LET s1 == [s EXCEPT !.env.apiKey = hdrKey]
          s2 == IF hdrSub # UNSET /\ hdrSub # ""
                THEN [s1 EXCEPT !.env.subdomain = hdrSub]
                ELSE s1
      IN [s |-> s2, ok |-> TRUE]

NoBody ==
    [error |-> "", message |-> "", required |-> << >>, optional |-> << >>,
     endpoints |-> << >>, status |-> "", transport |-> "", authMode |-> "",
     timestamp |-> ""]

\* the body of the /health response
HealthBody(gateway) ==
    [NoBody EXCEPT !.status = "ok", !.transport = "http",
                   !.authMode = IF gateway THEN "gateway" ELSE "env",
                   !.timestamp = "now"]

\* the body of the 401 response
MissingCredentialsBody ==
    [NoBody EXCEPT !.error = "Missing credentials",
                   !.message = "Gateway mode requires X-Syncro-API-Key header",
                   !.required = <<"X-Syncro-API-Key">>,
                   !.optional = <<"X-Syncro-Subdomain">>]

\* the body of the 404 response
NotFoundBody ==
    [NoBody EXCEPT !.error = "Not found",
                   !.endpoints = <<"/mcp", "/health">>]

\* serves the protocol on the root path too
RouteRequest_rootIsProtocol(s, gateway, path, hdrKey, hdrSub) ==
    IF path = "/health"
    THEN [s |-> s, op |-> "health", status |-> 200,
          body |-> HealthBody(gateway)]
    ELSE IF path = "/mcp" \/ path = "/"
    THEN LET g == IF gateway
                  THEN ApplyGatewayCredentials(s, hdrKey, hdrSub)
                  ELSE [s |-> s, ok |-> TRUE]
         IN
         IF ~g.ok
         THEN [s |-> g.s, op |-> "unauthorized", status |-> 401,
               body |-> MissingCredentialsBody]
         ELSE [s |-> g.s, op |-> "dispatch", status |-> 200,
               body |-> NoBody]
    ELSE [s |-> s, op |-> "notFound", status |-> 404,
          body |-> NotFoundBody]

\* extracts the gateway credentials before it looks at the path
RouteRequest_credentialsFirst(s, gateway, path, hdrKey, hdrSub) ==
    LET g == IF gateway
             THEN ApplyGatewayCredentials(s, hdrKey, hdrSub)
             ELSE [s |-> s, ok |-> TRUE]
    IN
    IF ~g.ok
    THEN [s |-> g.s, op |-> "unauthorized", status |-> 401,
          body |-> MissingCredentialsBody]
    ELSE IF path = "/health"
    THEN [s |-> g.s, op |-> "health", status |-> 200,
          body |-> HealthBody(gateway)]
    ELSE IF path = "/mcp"
    THEN [s |-> g.s, op |-> "dispatch", status |-> 200, body |-> NoBody]
    ELSE [s |-> g.s, op |-> "notFound", status |-> 404,
          body |-> NotFoundBody]

\* the createServer callback up to transport.handleRequest:
\*   [s, op, status, body]; op "dispatch" hands the request to the protocol
RouteRequest(s, gateway, path, hdrKey, hdrSub) ==
    IF path = "/health"
    THEN [s |-> s, op |-> "health", status |-> 200,
          body |-> HealthBody(gateway)]
    ELSE IF path = "/mcp"
    THEN LET g == IF gateway
                  THEN ApplyGatewayCredentials(s, hdrKey, hdrSub)
                  ELSE [s |-> s, ok |-> TRUE]
         IN
         IF ~g.ok
         THEN [s |-> g.s, op |-> "unauthorized", status |-> 401,
               body |-> MissingCredentialsBody]
         ELSE [s |-> g.s, op |-> "dispatch", status |-> 200,
               body |-> NoBody]
    ELSE [s |-> s, op |-> "notFound", status |-> 404,
          body |-> NotFoundBody]

\* ------------------------------------------- the handlers, await by await
\* An async function runs without interruption up to an await; what runs
\* between two awaits is one operator from the module state s and the
\* request q to [s, q]. q.pc names the await the request is suspended at:
\*   "received"      the transport has the request, the handler not started
\*   "importing"     getDomainHandler awaits import("./<domain>.js")
\*   "resolved"      the caller awaits the promise of getDomainHandler
\*   "constructing"  getClient awaits import("@asachs01/node-syncro")
\*   "gotClient"     handleCall awaits the promise of getClient
\*   "awaitRemote"   handleCall awaits the remote API call
\*   "done"          the handler has returned and the response is sent

\* the handler returns a call-tool result
FinishCall(q, res) ==
    [s |-> res.s,
     q |-> [q EXCEPT !.pc = "done", !.status = 200,
                     !.isError = res.isError, !.text = res.text,
                     !.remote = res.remote, !.used = res.used]]

\* the list-tools handler returns the tools
FinishList(s, q, tools) ==
    [s |-> s, q |-> [q EXCEPT !.pc = "done", !.status = 200,
                              !.tools = tools]]

\* getDomainHandler(domain) up to its await: a hit returns the cached
\* handler, a miss starts the import, an unknown domain throws
ResolveStart(s, q, domain) ==
    LET cached == IF domain \in DOMAIN s.domainCache
                  THEN s.domainCache[domain] ELSE NoHandler
    IN
    IF cached # NoHandler
    THEN [s |-> s, q |-> [q EXCEPT !.pc = "resolved", !.domain = domain,
                                   !.handler = cached]]
    ELSE IF ImportHandler(domain) = NoHandler
    THEN [s |-> s, q |-> [q EXCEPT !.pc = "resolved", !.domain = domain,
                                   !.handler = NoHandler]]
    ELSE [s |-> s, q |-> [q EXCEPT !.pc = "importing", !.domain = domain]]

\* the message of a failed import of a domain module
ImportErrorMessage == <<"Cannot find module">>

\* the rejection of the import is swallowed and the handler never returns
ResolveRejected_neverReturns(s, q) ==
    [s |-> s, q |-> [q EXCEPT !.pc = "hung"]]

\* getDomainHandler when its import rejects: nothing is stored, the
\* rejection passes through getToolsForState to the protocol and is caught
\* by the catch clause of the CallTool handler
ResolveRejected(s, q) ==
    IF q.kind = "list"
    THEN [s |-> s,
          q |-> [q EXCEPT !.pc = "done", !.status = 200, !.threw = TRUE,
                          !.text = ImportErrorMessage]]
    ELSE FinishCall(q, Caught(s, ImportErrorMessage, 0, NullClient))

\* returns the imported handler without storing it
ResolveImported_noStore(s, q) ==
    [s |-> s,
     q |-> [q EXCEPT !.pc = "resolved", !.handler = ImportHandler(q.domain)]]

\* getDomainHandler after its import: stores the handler and returns it
ResolveImported(s, q) ==
    LET handler == ImportHandler(q.domain) IN
    [s |-> [s EXCEPT !.domainCache[q.domain] = handler],
     q |-> [q EXCEPT !.pc = "resolved", !.handler = handler]]

\* reads the navigation state the request arrived in, not the current one
StartHandler_stateAtArrival(s, q) ==
    LET cd == q.arrivalDomain IN
    IF q.kind = "list"
    THEN IF cd = NULL
         THEN FinishList(s, q, <<navigateTool, statusTool>>)
         ELSE ResolveStart(s, q, cd)
    ELSE IF q.name = "syncro_navigate"
    THEN IF \/ q.arg = ArgsAbsent
            \/ ~IsDomainName(q.arg)
            \/ GetCredentials(s.env) = NullCreds
         THEN FinishCall(q, Navigate(s, q.arg))
         ELSE ResolveStart([s EXCEPT !.currentDomain = q.arg], q, q.arg)
    ELSE IF q.name = "syncro_back" THEN FinishCall(q, Back(s))
    ELSE IF q.name = "syncro_status" THEN FinishCall(q, Status(s))
    ELSE IF cd # NULL
    THEN ResolveStart(s, q, cd)
    ELSE FinishCall(q, ToolNotFound(s, q.name))

\* the ListTools and CallTool handlers from their start to their first
\* await or, when they reach none, to their return
StartHandler(s, q) ==
    IF q.kind = "list"
    THEN IF s.currentDomain = NULL
         THEN FinishList(s, q, <<navigateTool, statusTool>>)
         ELSE ResolveStart(s, q, s.currentDomain)
    ELSE IF q.name = "syncro_navigate"
    THEN IF \/ q.arg = ArgsAbsent
            \/ ~IsDomainName(q.arg)
            \/ GetCredentials(s.env) = NullCreds
         THEN FinishCall(q, Navigate(s, q.arg))
         ELSE ResolveStart([s EXCEPT !.currentDomain = q.arg], q, q.arg)
    ELSE IF q.name = "syncro_back" THEN FinishCall(q, Back(s))
    ELSE IF q.name = "syncro_status" THEN FinishCall(q, Status(s))
    ELSE IF s.currentDomain # NULL
    THEN ResolveStart(s, q, s.currentDomain)
    ELSE FinishCall(q, ToolNotFound(s, q.name))

\* never invalidates the cached client
GetClientStart_noInvalidation(s, q) ==
    LET creds == GetCredentials(s.env) IN
    IF creds = NullCreds
    THEN FinishCall(q, Caught(s, NoCredentialsMessage, 0, NullClient))
    ELSE IF s.client = NullClient
    THEN [s |-> s, q |-> [q EXCEPT !.pc = "constructing", !.creds = creds]]
    ELSE [s |-> s, q |-> [q EXCEPT !.pc = "gotClient", !.creds = creds,
                                   !.clientLocal = s.client]]

\* getClient() up to its await, called by handleCall inside the try of the
\* CallTool handler: throws without credentials, drops a client built from
\* another tuple, returns the cached client or starts the import
GetClientStart(s, q) ==
    LET creds == GetCredentials(s.env) IN
    IF creds = NullCreds
    THEN FinishCall(q, Caught(s, NoCredentialsMessage, 0, NullClient))
    ELSE
      LET s1 == IF CredentialsChanged(s, creds)
                THEN [s EXCEPT !.client = NullClient]
                ELSE s
      IN
      IF s1.client = NullClient
      THEN [s |-> s1,
            q |-> [q EXCEPT !.pc = "constructing", !.creds = creds]]
      ELSE [s |-> s1,
            q |-> [q EXCEPT !.pc = "gotClient", !.creds = creds,
                            !.clientLocal = s1.client]]

\* records the tuple process.env holds after the import, not the one the
\* client is constructed from
GetClientConstruct_storesCurrentTuple(s, q) ==
    LET made == [id |-> s.nextHandle, apiKey |-> q.creds.apiKey,
                 subdomain |-> q.creds.subdomain]
    IN
    [s |-> [s EXCEPT !.client = made,
                     !.credentials = GetCredentials(s.env),
                     !.nextHandle = @ + 1],
     q |-> [q EXCEPT !.pc = "gotClient", !.clientLocal = made]]

\* returns the client another call stored during the import, if any
GetClientConstruct_reusesStored(s, q) ==
    IF s.client # NullClient
    THEN [s |-> s,
          q |-> [q EXCEPT !.pc = "gotClient", !.clientLocal = s.client]]
    ELSE
      LET made == [id |-> s.nextHandle, apiKey |-> q.creds.apiKey,
                   subdomain |-> q.creds.subdomain]
      IN
      [s |-> [s EXCEPT !.client = made, !.credentials = q.creds,
                       !.nextHandle = @ + 1],
       q |-> [q EXCEPT !.pc = "gotClient", !.clientLocal = made]]

\* getClient() after its import: constructs the client from the tuple it
\* resolved before the await, stores both and returns the client
GetClientConstruct(s, q) ==
    LET made == [id |-> s.nextHandle, apiKey |-> q.creds.apiKey,
                 subdomain |-> q.creds.subdomain]
    IN
    [s |-> [s EXCEPT !.client = made, !.credentials = q.creds,
                     !.nextHandle = @ + 1],
     q |-> [q EXCEPT !.pc = "gotClient", !.clientLocal = made]]

\* list-tools adds the tools of the domain selected when it resumes
AfterResolve_listRereadsState(s, q) ==
    IF q.handler = NoHandler
    THEN IF q.kind = "list"
         THEN [s |-> s,
               q |-> [q EXCEPT !.pc = "done", !.status = 200,
                               !.threw = TRUE,
                               !.text = <<"Unknown domain: ", q.domain>>]]
         ELSE FinishCall(q, Caught(s, <<"Unknown domain: ", q.domain>>,
                                   0, NullClient))
    ELSE IF q.kind = "list"
    THEN FinishList(s, q,
           <<backTool, statusTool>>
              \o (IF s.currentDomain = NULL THEN << >>
                  ELSE HandlerTools(ImportHandler(s.currentDomain))))
    ELSE IF q.name = "syncro_navigate"
    THEN FinishCall(q,
           Result(s, FALSE,
                  <<"Navigated to ", q.arg, " domain.\n\nAvailable tools:\n">>
                      \o Join(HandlerTools(q.handler), "\n")
                      \o <<"\n\nUse syncro_back to return to the main menu.">>,
                  0, NullClient))
    ELSE IF q.name \in Range(HandlerTools(q.handler))
    THEN GetClientStart(s, q)
    ELSE FinishCall(q, ToolNotFound(s, q.name))

\* the handlers after `await getDomainHandler(...)`
AfterResolve(s, q) ==
    IF q.handler = NoHandler
    THEN IF q.kind = "list"
         THEN [s |-> s,
               q |-> [q EXCEPT !.pc = "done", !.status = 200,
                               !.threw = TRUE,
                               !.text = <<"Unknown domain: ", q.domain>>]]
         ELSE FinishCall(q, Caught(s, <<"Unknown domain: ", q.domain>>,
                                   0, NullClient))
    ELSE IF q.kind = "list"
    THEN FinishList(s, q, <<backTool, statusTool>> \o HandlerTools(q.handler))
    ELSE IF q.name = "syncro_navigate"
    THEN FinishCall(q,
           Result(s, FALSE,
                  <<"Navigated to ", q.arg, " domain.\n\nAvailable tools:\n">>
                      \o Join(HandlerTools(q.handler), "\n")
                      \o <<"\n\nUse syncro_back to return to the main menu.">>,
                  0, NullClient))
    ELSE IF q.name \in Range(HandlerTools(q.handler))
    THEN GetClientStart(s, q)
    ELSE FinishCall(q, ToolNotFound(s, q.name))

\* handleCall after `await getClient()`: the switch, the read of the
\* argument bag and the remote call issued on the client it was handed
CallRemote(s, q) ==
    IF q.name \in HandlerCases(q.handler)
    THEN IF q.arg = ArgsAbsent
         THEN FinishCall(q, Caught(s, TypeErrorMessage, 0, NullClient))
         ELSE [s |-> s,
               q |-> [q EXCEPT !.pc = "awaitRemote", !.remote = 1,
                               !.used = q.clientLocal]]
    ELSE FinishCall(q,
           Result(s, TRUE,
                  <<"Unknown ", HandlerNoun(q.handler), " tool: ", q.name>>,
                  0, NullClient))

\* handleCall after the remote call: its result, or its rejection caught
\* by the CallTool handler
RemoteSettled(s, q) ==
    IF q.outcome = "ok"
    THEN FinishCall(q, Result(s, FALSE,
                              <<"JSON of the response of ", q.name>>,
                              1, q.used))
    ELSE FinishCall(q, Caught(s, <<q.outcome>>, 1, q.used))

\* ------------------------------------------------------- process lifecycle
Signals == {"SIGINT", "SIGTERM"}

\* the process after main() has resolved: the protocol server is connected
\* and, on the HTTP transport, httpServer is assigned and listening
RunningProcess(transport) ==
    [httpServer |-> IF transport = "http" THEN "listening" ELSE "none",
     server |-> "connected",
     shutdown |-> [sig \in Signals |-> "idle"],
     released |-> << >>,
     exited |-> FALSE,
     exitCode |-> 0,
     cause |-> "none"]

\* process.exit(code)
ProcessExit(p, code, cause) ==
    [p EXCEPT !.exited = TRUE, !.exitCode = code, !.cause = cause]

\* the "unhandledRejection" listener
UnhandledRejection(p) == ProcessExit(p, 1, "unhandledRejection")

\* the "uncaughtException" listener
UncaughtException(p) == ProcessExit(p, 1, "uncaughtException")

\* shutdown(signal) up to its first await: httpServer.close when the
\* variable is assigned, server.close otherwise; close on a listener that
\* is not listening any more calls back with an error
Shutdown(p, signal) ==
    IF p.httpServer # "none"
    THEN IF p.httpServer = "listening"
         THEN [p EXCEPT !.shutdown[signal] = "closingHttp",
                        !.httpServer = "closing"]
         ELSE [p EXCEPT !.shutdown[signal] = "closeFailing"]
    ELSE [p EXCEPT !.shutdown[signal] = "closingServer"]

\* the callback of httpServer.close: an error rejects the promise shutdown
\* returned, which the signal listener dropped; otherwise shutdown goes on
\* to server.close
ShutdownHttpClosed(p, signal) ==
    IF p.shutdown[signal] = "closeFailing"
    THEN UnhandledRejection([p EXCEPT !.shutdown[signal] = "rejected"])
    ELSE [p EXCEPT !.shutdown[signal] = "closingServer",
                   !.httpServer = "closed",
                   !.released = Append(@, "httpServer")]

\* shutdown after `await server.close()`: process.exit(0)
ShutdownServerClosed(p, signal) ==
    ProcessExit([p EXCEPT !.shutdown[signal] = "exiting",
                          !.server = "closed",
                          !.released = IF p.server = "closed" THEN @
                                       ELSE Append(@, "server")],
                0, signal)

\* ------------------------------------------------------------------ state
VARIABLES
    currentDomain,   \* index.ts: let currentDomain
    env,             \* process.env: SYNCRO_API_KEY, SYNCRO_SUBDOMAIN
    domainCache,     \* domains/index.ts: const domainCache
    client,          \* utils/client.ts: let _client
    credentials,     \* utils/client.ts: let _credentials
    nextHandle,      \* identity of the next SyncroClient instance constructed
    transportType,   \* MCP_TRANSPORT
    isGatewayMode,   \* AUTH_MODE === "gateway"
    last,            \* the last operation, its inputs and what it returned
    requests,        \* the protocol requests in flight, one per slot
    arrived,         \* number of protocol requests that have arrived
    responses,       \* arrival numbers of the responses, in sending order
    proc             \* the process: httpServer, the protocol server, exit

vars == <<currentDomain, env, domainCache, client, credentials, nextHandle,
          transportType, isGatewayMode, last, requests, arrived, responses,
          proc>>

\* the program state as the record the operators work on
S ==
    [currentDomain |-> currentDomain, env |-> env,
     domainCache |-> domainCache, client |-> client,
     credentials |-> credentials, nextHandle |-> nextHandle]

\* the assignments a run of program code makes to the module state; no
\* code runs after process.exit
InstallState(s) ==
    /\ s.nextHandle <= MaxHandles
    /\ ~proc.exited
    /\ proc' = proc
    /\ currentDomain' = s.currentDomain
    /\ env' = s.env
    /\ domainCache' = s.domainCache
    /\ client' = s.client
    /\ credentials' = s.credentials
    /\ nextHandle' = s.nextHandle

\* the same for an operation that runs with no request suspended
Install(s) ==
    /\ InstallState(s)
    /\ UNCHANGED <<requests, arrived, responses>>

\* the state after module load with nothing configured
EmptyState ==
    [currentDomain |-> NULL,
     env |-> [apiKey |-> UNSET, subdomain |-> UNSET],
     domainCache |-> [d \in DomainNames |-> NoHandler],
     client |-> NullClient, credentials |-> NullCreds, nextHandle |-> 0]

\* the record of an operation: what was called (op, via, name, arg, path,
\* headers), the state it was called in (pre) and what it returned
NoOp ==
    [op |-> "init", via |-> "none", pre |-> EmptyState,
     name |-> "", arg |-> "", threw |-> FALSE,
     isError |-> FALSE, text |-> << >>, tools |-> << >>, remote |-> 0,
     used |-> NullClient, handle |-> NullClient, resolved |-> NullCreds,
     path |-> "", hdrKey |-> UNSET, hdrSub |-> UNSET, status |-> 0,
     body |-> NoBody, outcome |-> "ok", handler |-> NoHandler]

\* the slots for requests in flight
Slots == {1, 2}

\* a request in flight: what it carried (kind, name, arg, outcome, headers),
\* where its handler is suspended (pc), the locals that live across the
\* awaits (domain, handler, creds, clientLocal) and its response; seq is
\* its arrival number, arrivalDomain and startDomain are currentDomain when
\* it arrived and when its handler started, envAtRead is process.env when
\* the handler resumed with the domain handler (where getClient reads it),
\* joinedSeq is the arrival number of a request that was suspended in
\* getClient at the client library import, for the same tuple, when this
\* request's getClient reached that import (0: there was none),
\* invokeDomain is currentDomain at the moment the CallTool handler called
\* handler.handleCall ("-": it has not)
IdleSlot ==
    [pc |-> "idle", seq |-> 0, kind |-> "", name |-> "", arg |-> "",
     outcome |-> "ok", hdrKey |-> UNSET, hdrSub |-> UNSET,
     arrivalDomain |-> NULL, startDomain |-> NULL,
     envAtRead |-> [apiKey |-> UNSET, subdomain |-> UNSET],
     joinedSeq |-> 0,
     invokeDomain |-> "-",
     domain |-> NULL, handler |-> NoHandler, creds |-> NullCreds,
     clientLocal |-> NullClient,
     status |-> 0, threw |-> FALSE, isError |-> FALSE, text |-> << >>,
     tools |-> << >>, remote |-> 0, used |-> NullClient]

\* ----------------------------------------------------------------- inputs
\* configurations of process.env the navigation specifications draw from
NavEnvs ==
    {[apiKey |-> UNSET, subdomain |-> UNSET],
     [apiKey |-> "k1", subdomain |-> UNSET]}
AllEnvs == [apiKey : EnvApiKeyValues, subdomain : EnvSubdomainValues]

\* values of the domain argument outside the closed set (UNSET: a bag
\* without a domain field)
NonMembers == {"unknown", UNSET}
NavigateArgs == DomainNames \cup NonMembers \cup {ArgsAbsent}
\* for the other tools: no argument bag, or a bag
BagArgs == {ArgsAbsent, UNSET}

AllDomainTools ==
    UNION {Range(HandlerTools(h)) : h \in Handlers}
\* the tool names requests are drawn from: tools of every domain and a name
\* no domain owns
SampleTools ==
    {"syncro_customers_list", "syncro_tickets_get", "syncro_assets_list",
     "syncro_contacts_list", "syncro_invoices_list", "syncro_unknown"}

\* protocol requests: list-tools, or call-tool with a name, the argument
\* bag and the outcome of the remote call it may issue
ListRequest == [kind |-> "list", name |-> "", arg |-> "", outcome |-> "ok"]
Requests ==
    {ListRequest}
    \cup [kind : {"call"}, name : {navigateTool}, arg : NavigateArgs,
          outcome : {"ok"}]
    \cup [kind : {"call"}, name : {backTool, statusTool}, arg : {UNSET},
          outcome : {"ok"}]
    \cup [kind : {"call"}, name : SampleTools, arg : BagArgs,
          outcome : RemoteOutcomes]

\* the requests drawn on the HTTP transport
HttpRequests ==
    {ListRequest}
    \cup [kind : {"call"}, name : {navigateTool},
          arg : {"customers", "tickets", "unknown"},
          outcome : {"ok"}]
    \cup [kind : {"call"}, name : {backTool, statusTool}, arg : {UNSET},
          outcome : {"ok"}]
    \cup [kind : {"call"},
          name : {"syncro_tickets_get", "syncro_unknown"},
          arg : {UNSET}, outcome : {"ok", "Ticket not found"}]

\* the argument bag and the remote outcome are read only by the handler of
\* a tool of the selected domain: elsewhere one value of each is drawn
Drawn(req) ==
    \/ req.kind = "list"
    \/ req.name \in {navigateTool, backTool, statusTool}
    \/ /\ currentDomain \in DomainNames
       /\ req.name \in Range(HandlerTools(ImportHandler(currentDomain)))
       /\ (req.arg = ArgsAbsent => req.outcome = "ok")
    \/ req.arg = UNSET /\ req.outcome = "ok"

\* the requests drawn while other requests are in flight
ConcRequests ==
    {ListRequest}
    \cup [kind : {"call"}, name : {navigateTool},
          arg : {"tickets", "customers"}, outcome : {"ok"}]
    \cup [kind : {"call"}, name : {backTool, statusTool}, arg : {UNSET},
          outcome : {"ok"}]
    \cup [kind : {"call"}, name : {"syncro_tickets_get"}, arg : {UNSET},
          outcome : {"ok", "Ticket not found"}]
    \cup [kind : {"call"}, name : {"syncro_unknown"}, arg : {UNSET},
          outcome : {"ok"}]
ConcHeaderApiKeys == {UNSET, "k1", "k2"}

Paths == {"/health", "/mcp", "/", "/other"}
HeaderApiKeys == {UNSET, "", "k2"}
HeaderSubdomains == {UNSET} \cup Subdomains

\* ------------------------------------------------------------------- Init
\* the module state after load: at the root, both caches empty
InitState ==
    /\ currentDomain = NULL
    /\ domainCache = [d \in DomainNames |-> NoHandler]
    /\ client = NullClient
    /\ credentials = NullCreds
    /\ nextHandle = 0
    /\ last = NoOp
    /\ requests = [r \in Slots |-> IdleSlot]
    /\ arrived = 0
    /\ responses = << >>

Init ==
    /\ InitState
    /\ env \in NavEnvs
    /\ transportType = "stdio"
    /\ isGatewayMode = FALSE
    /\ proc = RunningProcess(transportType)

InitHttp ==
    /\ InitState
    /\ env \in NavEnvs
    /\ transportType = "http"
    /\ isGatewayMode \in BOOLEAN
    /\ proc = RunningProcess(transportType)

InitClient ==
    /\ InitState
    /\ env \in AllEnvs
    /\ transportType = "stdio"
    /\ isGatewayMode = FALSE
    /\ proc = RunningProcess(transportType)

\* ---------------------------------------------------------------- actions
\* server.setRequestHandler dispatch of one protocol request on state s
Dispatch(s, req, base0) ==
    LET base == [base0 EXCEPT !.pre = S] IN
    IF req.kind = "list"
    THEN \E r \in {GetToolsForState(s)} :
         /\ Install(r.s)
         /\ last' = [base EXCEPT !.op = "list", !.threw = r.threw,
                                 !.text = r.msg, !.tools = r.tools]
    ELSE \E r \in {CallTool(s, req.name, req.arg, req.outcome)} :
         /\ Install(r.s)
         /\ last' = [base EXCEPT !.op = "call", !.name = req.name,
                                 !.arg = req.arg, !.outcome = req.outcome,
                                 !.isError = r.isError,
                                 !.text = r.text, !.remote = r.remote,
                                 !.used = r.used]

\* a request arriving on the stdio transport
StdioRequest(req) ==
    /\ transportType = "stdio"
    /\ Drawn(req)
    /\ Dispatch(S, req, [NoOp EXCEPT !.via = "stdio"])
    /\ UNCHANGED <<transportType, isGatewayMode>>

\* the createServer callback: one HTTP request
HttpRequest(path, hdrKey, hdrSub, req) ==
    LET base == [NoOp EXCEPT !.via = "http", !.pre = S, !.path = path,
                             !.hdrKey = hdrKey, !.hdrSub = hdrSub]
    IN
    /\ transportType = "http"
    /\ UNCHANGED <<transportType, isGatewayMode>>
    /\ \E g \in {RouteRequest(S, isGatewayMode, path, hdrKey, hdrSub)} :
         IF g.op = "dispatch"
         THEN /\ Drawn(req)
              /\ Dispatch(g.s, req, [base EXCEPT !.status = 200])
         ELSE /\ Install(g.s)
              /\ last' = [base EXCEPT !.op = g.op, !.status = g.status,
                                      !.body = g.body]

\* a direct call of getClient()
GetClientCall ==
    LET r == GetClient(S) IN
    /\ Install(r.s)
    /\ last' = [NoOp EXCEPT !.op = "getClient", !.via = "direct",
                            !.pre = S,
                            !.threw = r.threw, !.text = r.msg,
                            !.handle = r.handle,
                            !.resolved = GetCredentials(env)]
    /\ UNCHANGED <<transportType, isGatewayMode>>

\* a direct call of clearClient()
ClearClientCall ==
    /\ Install(ClearClient(S))
    /\ last' = [NoOp EXCEPT !.op = "clearClient", !.via = "direct",
                            !.pre = S]
    /\ UNCHANGED <<transportType, isGatewayMode>>

\* a direct call of clearDomainCache()
ClearDomainCacheCall ==
    /\ Install(ClearDomainCache(S))
    /\ last' = [NoOp EXCEPT !.op = "clearDomainCache", !.via = "direct",
                            !.pre = S]
    /\ UNCHANGED <<transportType, isGatewayMode>>

\* a direct call of getDomainHandler(domain)
GetDomainHandlerCall(domain) ==
    LET r == GetDomainHandler(S, domain) IN
    /\ Install(r.s)
    /\ last' = [NoOp EXCEPT !.op = "resolve", !.via = "direct", !.pre = S,
                            !.arg = domain, !.threw = r.threw,
                            !.text = r.msg, !.handler = r.handler]
    /\ UNCHANGED <<transportType, isGatewayMode>>

\* a direct call of <domain>Handler.handleCall(toolName, args)
HandleCallCall(h, toolName, arg, outcome) ==
    /\ \E r \in {HandleCall(S, h, toolName, arg, outcome)} :
         /\ Install(r.s)
         /\ last' = [NoOp EXCEPT !.op = "handleCall", !.via = "direct",
                                 !.pre = S, !.handler = h,
                                 !.name = toolName, !.arg = arg,
                                 !.outcome = outcome, !.threw = r.threw,
                                 !.isError = r.isError,
                                 !.text = IF r.threw THEN r.msg ELSE r.text,
                                 !.remote = r.remote, !.used = r.used]
    /\ UNCHANGED <<transportType, isGatewayMode>>

\* the configuration changes: process.env is assigned or a variable deleted
SetEnv(e) ==
    /\ e # env
    /\ Install([S EXCEPT !.env = e])
    /\ last' = [NoOp EXCEPT !.op = "setEnv", !.via = "direct", !.pre = S]
    /\ UNCHANGED <<transportType, isGatewayMode>>

\* a session on the stdio transport
Next ==
    \/ \E req \in Requests : StdioRequest(req)
    \/ ClearDomainCacheCall
    \/ \E e \in NavEnvs : SetEnv(e)

Spec == Init /\ [][Next]_vars

\* the server on the HTTP transport, in either auth mode; the credential
\* headers are read only on the protocol path in gateway mode
NextHttp ==
    \/ \E path \in Paths, hdrKey \in HeaderApiKeys,
          hdrSub \in HeaderSubdomains, req \in HttpRequests :
            /\ (path # "/mcp" \/ ~isGatewayMode) =>
                  <<hdrKey, hdrSub>> \in {<<UNSET, UNSET>>, <<"k2", "s1">>}
            /\ (path # "/mcp" \/ (isGatewayMode /\ hdrKey \in {UNSET, ""}))
                  => req = ListRequest
            /\ HttpRequest(path, hdrKey, hdrSub, req)
    \/ ClearClientCall
    \/ ClearDomainCacheCall

SpecHttp == InitHttp /\ [][NextHttp]_vars

\* the client module called on its own
NextClient ==
    \/ GetClientCall
    \/ ClearClientCall
    \/ \E e \in AllEnvs : SetEnv(e)

SpecClient == InitClient /\ [][NextClient]_vars

\* the handler registry called on its own; "unknown" stands for a value
\* outside the DomainName type
NextRegistry ==
    \/ \E domain \in DomainNames \cup {"unknown"} :
          GetDomainHandlerCall(domain)
    \/ ClearDomainCacheCall

SpecRegistry == Init /\ [][NextRegistry]_vars

\* the domain handlers called on their own; the argument bag and the remote
\* outcome are read only in a case of the handler's switch
NextHandlers ==
    \/ \E h \in Handlers, toolName \in SampleTools, arg \in BagArgs,
          outcome \in RemoteOutcomes :
            /\ toolName \notin HandlerCases(h)
                  => (arg = UNSET /\ outcome = "ok")
            /\ arg = ArgsAbsent => outcome = "ok"
            /\ HandleCallCall(h, toolName, arg, outcome)
    \/ ClearClientCall
    \/ \E e \in NavEnvs : SetEnv(e)

SpecHandlers == Init /\ [][NextHandlers]_vars

\* ------------------------------------------- requests handled concurrently
\* the slot a new request is put in: the first one free
FreeSlot(r) ==
    /\ requests[r].pc \in {"idle", "done"}
    /\ \A r2 \in Slots : r2 < r => requests[r2].pc \notin {"idle", "done"}

NewRequest(req, hdrKey, hdrSub) ==
    [IdleSlot EXCEPT !.seq = arrived + 1, !.kind = req.kind,
                     !.name = req.name, !.arg = req.arg,
                     !.outcome = req.outcome, !.hdrKey = hdrKey,
                     !.hdrSub = hdrSub, !.arrivalDomain = currentDomain]

\* the createServer callback for a request to /mcp: it answers 401 itself
\* or passes the request to transport.handleRequest, which reads the body
\* and calls the protocol handler later; it does not wait for the requests
\* passed on before
HttpArrives(r, hdrKey, hdrSub, req) ==
    /\ transportType = "http"
    /\ FreeSlot(r)
    /\ arrived < MaxRequests
    /\ \E g \in {RouteRequest(S, isGatewayMode, "/mcp", hdrKey, hdrSub)} :
         /\ InstallState(g.s)
         /\ IF g.op = "dispatch"
            THEN /\ requests' = [requests EXCEPT ![r] =
                       [NewRequest(req, hdrKey, hdrSub) EXCEPT
                           !.pc = "received"]]
                 /\ responses' = responses
            ELSE /\ requests' = [requests EXCEPT ![r] =
                       [NewRequest(req, hdrKey, hdrSub) EXCEPT
                           !.pc = "done", !.status = g.status]]
                 /\ responses' = Append(responses, arrived + 1)
    /\ arrived' = arrived + 1
    /\ UNCHANGED <<transportType, isGatewayMode, last>>

\* a request read from stdin: the server registered the async handlers
\* (setRequestHandler) and is connected to the transport, which hands each
\* message over as it is read; nothing in index.ts holds a message back
\* until the handler of the one before has returned
StdioArrives(r, req) ==
    /\ transportType = "stdio"
    /\ ~proc.exited
    /\ FreeSlot(r)
    /\ arrived < MaxRequests
    /\ requests' = [requests EXCEPT ![r] =
           [NewRequest(req, UNSET, UNSET) EXCEPT !.pc = "received"]]
    /\ arrived' = arrived + 1
    /\ UNCHANGED <<currentDomain, env, domainCache, client, credentials,
                   nextHandle, responses, transportType, isGatewayMode,
                   last, proc>>

\* a suspended request runs to its next await; when its handler returns,
\* the response is sent
Resume(r, res) ==
    /\ InstallState(res.s)
    /\ requests' = [requests EXCEPT ![r] = res.q]
    /\ responses' = IF res.q.pc = "done"
                    THEN Append(responses, res.q.seq)
                    ELSE responses
    /\ UNCHANGED <<arrived, transportType, isGatewayMode, last>>

\* the protocol calls the handler registered for the request; the messages
\* of the stdio channel are handed over in the order they were read
HandlerStarts(r) ==
    /\ requests[r].pc = "received"
    /\ transportType = "stdio" =>
          \A r2 \in Slots : requests[r2].pc = "received"
                                => requests[r2].seq >= requests[r].seq
    /\ \E res \in {StartHandler(S, requests[r])} :
         Resume(r, [res EXCEPT !.q.startDomain = currentDomain])

\* import("./<domain>.js") settles
ImportSettles(r) ==
    /\ requests[r].pc = "importing"
    /\ \E res \in {ResolveImported(S, requests[r])} : Resume(r, res)

\* import("./<domain>.js") rejects: the module cannot be loaded
ImportFails(r) ==
    /\ requests[r].pc = "importing"
    /\ \E res \in {ResolveRejected(S, requests[r])} : Resume(r, res)

\* the await of getDomainHandler resumes
ResolveReturns(r) ==
    /\ requests[r].pc = "resolved"
    /\ \E res \in {AfterResolve(S, requests[r])} :
         LET ahead == {r2 \in Slots \ {r} :
                          /\ res.q.pc = "constructing"
                          /\ requests[r2].pc = "constructing"
                          /\ requests[r2].creds = res.q.creds}
         IN Resume(r, [res EXCEPT !.q.envAtRead = env,
                                  !.q.invokeDomain =
                                      IF /\ requests[r].kind = "call"
                                         /\ requests[r].handler # NoHandler
                                         /\ requests[r].name \in Range(
                                               HandlerTools(requests[r].handler))
                                      THEN currentDomain
                                      ELSE "-",
                                  !.q.joinedSeq =
                                      IF ahead = {} THEN 0
                                      ELSE requests[CHOOSE r2 \in ahead : TRUE].seq])

\* import("@asachs01/node-syncro") settles
ClientConstructed(r) ==
    /\ requests[r].pc = "constructing"
    /\ \E res \in {GetClientConstruct(S, requests[r])} : Resume(r, res)

\* the await of getClient resumes
ClientReturns(r) ==
    /\ requests[r].pc = "gotClient"
    /\ \E res \in {CallRemote(S, requests[r])} : Resume(r, res)

\* the remote API call settles
RemoteReturns(r) ==
    /\ requests[r].pc = "awaitRemote"
    /\ \E res \in {RemoteSettled(S, requests[r])} : Resume(r, res)

\* the steps of the handlers of the requests in flight
HandlerSteps ==
    \/ \E r \in Slots : HandlerStarts(r)
    \/ \E r \in Slots : ImportSettles(r)
    \/ \E r \in Slots : ResolveReturns(r)
    \/ \E r \in Slots : ClientConstructed(r)
    \/ \E r \in Slots : ClientReturns(r)
    \/ \E r \in Slots : RemoteReturns(r)

\* protocol requests on the HTTP transport, handled concurrently; the
\* credential headers are read only in gateway mode, and a request
\* answered 401 is never parsed
NextConcHttp ==
    \/ \E r \in Slots, hdrKey \in ConcHeaderApiKeys, req \in ConcRequests :
          /\ ~isGatewayMode => hdrKey = UNSET
          /\ (isGatewayMode /\ hdrKey = UNSET) => req = ListRequest
          /\ HttpArrives(r, hdrKey, UNSET, req)
    \/ HandlerSteps

SpecConcHttp == InitHttp /\ [][NextConcHttp]_vars

\* configurations of process.env drawn while getClient calls are in flight
ConcEnvs ==
    {[apiKey |-> UNSET, subdomain |-> UNSET],
     [apiKey |-> "k1", subdomain |-> UNSET],
     [apiKey |-> "k2", subdomain |-> UNSET],
     [apiKey |-> "k1", subdomain |-> "s1"]}

\* a direct call of getClient() up to its first await, or to its return
\* or throw when it has none
GetClientBegins(r) ==
    /\ FreeSlot(r)
    /\ arrived < MaxRequests
    /\ \E res \in {GetClientStart(S, [IdleSlot EXCEPT !.seq = arrived + 1,
                                                     !.kind = "getClient"])} :
         /\ InstallState(res.s)
         /\ requests' = [requests EXCEPT ![r] =
                [res.q EXCEPT !.envAtRead = env,
                              !.threw = (res.q.pc = "done")]]
    /\ arrived' = arrived + 1
    /\ UNCHANGED <<responses, transportType, isGatewayMode, last>>

\* the caller of getClient() resumes with the handle
GetClientReturned(r) ==
    /\ requests[r].kind = "getClient"
    /\ requests[r].pc = "gotClient"
    /\ InstallState(S)
    /\ requests' = [requests EXCEPT ![r].pc = "done"]
    /\ UNCHANGED <<arrived, responses, transportType, isGatewayMode, last>>

InitConcClient ==
    /\ InitState
    /\ env \in ConcEnvs
    /\ transportType = "stdio"
    /\ isGatewayMode = FALSE
    /\ proc = RunningProcess(transportType)

\* the client module called by overlapping callers while the configuration
\* changes and the cache is cleared
NextConcClient ==
    \/ \E r \in Slots : GetClientBegins(r)
    \/ \E r \in Slots : ClientConstructed(r)
    \/ \E r \in Slots : GetClientReturned(r)
    \/ ClearClientCall
    \/ \E e \in ConcEnvs : SetEnv(e)

SpecConcClient == InitConcClient /\ [][NextConcClient]_vars

\* protocol requests on one stdio channel
NextConcStdio ==
    \/ \E r \in Slots, req \in ConcRequests : StdioArrives(r, req)
    \/ HandlerSteps

SpecConcStdio == Init /\ [][NextConcStdio]_vars

\* the same where the import of a domain module may fail
NextLoadFailure ==
    \/ NextConcStdio
    \/ \E r \in Slots : ImportFails(r)

SpecLoadFailure == Init /\ [][NextLoadFailure]_vars

\* the next step of the handler of the request in slot r
HandlerStep(r) ==
    \/ HandlerStarts(r)
    \/ ImportSettles(r)
    \/ ImportFails(r)
    \/ ResolveReturns(r)
    \/ ClientConstructed(r)
    \/ ClientReturns(r)
    \/ RemoteReturns(r)

\* the requests drawn where every request must be answered
LiveRequests ==
    {ListRequest}
    \cup [kind : {"call"}, name : {navigateTool}, arg : {"tickets"},
          outcome : {"ok"}]
    \cup [kind : {"call"}, name : {backTool}, arg : {UNSET},
          outcome : {"ok"}]
    \cup [kind : {"call"}, name : {"syncro_tickets_get"}, arg : {UNSET},
          outcome : {"ok", "Ticket not found"}]

\* requests on the stdio channel; a request may construct one client
NextLive ==
    \/ \E r \in Slots, req \in LiveRequests :
          /\ arrived < MaxHandles
          /\ StdioArrives(r, req)
    \/ \E r \in Slots : HandlerStep(r)

\* the event loop runs every continuation that is ready, and every import
\* and remote call that was started settles: it completes or it fails
SpecLive ==
    /\ Init
    /\ [][NextLive]_vars
    /\ \A r \in Slots : WF_vars(HandlerStep(r))

\* ------------------------------------------------ signals and fatal errors
\* what the lifecycle steps leave alone
ProgramUnchanged ==
    UNCHANGED <<currentDomain, env, domainCache, client, credentials,
                nextHandle, transportType, isGatewayMode, last, requests,
                arrived, responses>>

\* process.on("SIGINT" / "SIGTERM"): the listener calls shutdown(signal)
\* and drops the promise
SignalReceived(signal) ==
    /\ ~proc.exited
    /\ proc.shutdown[signal] = "idle"
    /\ proc' = Shutdown(proc, signal)
    /\ ProgramUnchanged

\* httpServer.close calls back
HttpServerClosed(signal) ==
    /\ ~proc.exited
    /\ proc.shutdown[signal] \in {"closingHttp", "closeFailing"}
    /\ proc' = ShutdownHttpClosed(proc, signal)
    /\ ProgramUnchanged

\* server.close() settles
ProtocolServerClosed(signal) ==
    /\ ~proc.exited
    /\ proc.shutdown[signal] = "closingServer"
    /\ proc' = ShutdownServerClosed(proc, signal)
    /\ ProgramUnchanged

\* an exception thrown outside any handler's try block, e.g. by the
\* createServer callback (new URL of a malformed request target) or by an
\* "error" event of the listener
UncaughtExceptionRaised ==
    /\ ~proc.exited
    /\ proc' = UncaughtException(proc)
    /\ ProgramUnchanged

\* a promise nobody awaits rejects, e.g. the one transport.handleRequest
\* returns to the createServer callback
UnhandledRejectionRaised ==
    /\ ~proc.exited
    /\ transportType = "http"
    /\ proc' = UnhandledRejection(proc)
    /\ ProgramUnchanged

\* the requests drawn while the process may be shutting down
LifecycleRequests ==
    {ListRequest}
    \cup [kind : {"call"}, name : {navigateTool}, arg : {"tickets"},
          outcome : {"ok"}]
    \cup [kind : {"call"}, name : {backTool, "syncro_tickets_get"},
          arg : {UNSET}, outcome : {"ok"}]

InitLifecycle ==
    /\ InitState
    /\ env \in NavEnvs
    /\ transportType \in {"stdio", "http"}
    /\ isGatewayMode = FALSE
    /\ proc = RunningProcess(transportType)

\* the server from the end of main() to the exit of the process; the
\* listener takes no new connection once close has been called
NextLifecycle ==
    \/ \E r \in Slots, req \in LifecycleRequests :
          /\ proc.httpServer = "listening"
          /\ HttpArrives(r, UNSET, UNSET, req)
    \/ \E r \in Slots, req \in LifecycleRequests : StdioArrives(r, req)
    \/ HandlerSteps
    \/ \E signal \in Signals : SignalReceived(signal)
    \/ \E signal \in Signals : HttpServerClosed(signal)
    \/ \E signal \in Signals : ProtocolServerClosed(signal)
    \/ UncaughtExceptionRaised
    \/ UnhandledRejectionRaised

SpecLifecycle == InitLifecycle /\ [][NextLifecycle]_vars

\* -------------------------------------------------------------- typing
TypeOK ==
    /\ currentDomain \in DomainNames \cup {NULL}
    /\ env \in AllEnvs
    /\ domainCache \in [DomainNames -> Handlers \cup {NoHandler}]
    /\ nextHandle \in 0..MaxHandles
    /\ (client = NullClient) <=> (credentials = NullCreds)
    /\ client # NullClient => client.id = nextHandle - 1

\* ================================================================ claims
\* the tool list of a domain, by the domain's own module
ToolsOfDomain(d) ==
    CASE d = "customers" -> customers_getTools
      [] d = "tickets" -> tickets_getTools
      [] d = "assets" -> assets_getTools
      [] d = "contacts" -> contacts_getTools
      [] d = "invoices" -> invoices_getTools

\* the visible tool set of a navigation state
VisibleTools(cd) ==
    IF cd = NULL
    THEN {"syncro_navigate", "syncro_status"}
    ELSE {"syncro_back", "syncro_status"} \cup Range(ToolsOfDomain(cd))

ReservedNames == {"syncro_navigate", "syncro_back", "syncro_status"}

\* tools is exactly the set expected, each tool once
ExactlyTools(tools, expected) ==
    /\ Range(tools) = expected
    /\ Len(tools) = Cardinality(expected)

IsCall(name) == last.op = "call" /\ last.name = name

\* a credential tuple was resolvable in the state the operation was called in
PreCredentials == last.pre.env.apiKey \notin {UNSET, ""}

CanonicalDomainList ==
    <<"customers", ", ", "tickets", ", ", "assets", ", ", "contacts", ", ",
      "invoices">>

\* C1: a list-tools request returns exactly navigate and status at the root
\* and exactly back, status and the tools of d in InDomain(d), whatever the
\* credentials, the handler cache and the client cache are.
C1_ListToolsIsFunctionOfNavigationState ==
    last.op = "list" =>
        /\ ~last.threw
        /\ ExactlyTools(last.tools, VisibleTools(last.pre.currentDomain))

\* listed in a domain with no credentials configured, a client cached and
\* the handler cache emptied just before
C1_Witness ==
    /\ last.op = "list"
    /\ last.pre.currentDomain = "tickets"
    /\ last.pre.domainCache["tickets"] = NoHandler
    /\ last.pre.env.apiKey = UNSET
    /\ client # NullClient

\* C2 (as claimed): invoking any name outside the visible tool set, reserved
\* names included, yields an error result, no state transition and no
\* remote call.
C2_NotVisibleNeverDispatched ==
    (last.op = "call" /\ last.name \notin VisibleTools(last.pre.currentDomain))
        => /\ last.isError
           /\ currentDomain = last.pre.currentDomain
           /\ last.remote = 0

\* C2 (amended): invoking a name that is not reserved and is not a tool of
\* the selected domain yields an error result, leaves the navigation state
\* as it was and issues no remote call.
C2_ForeignToolRejected ==
    (/\ last.op = "call"
     /\ last.name \notin ReservedNames
     /\ last.name \notin VisibleTools(last.pre.currentDomain))
        => /\ last.isError
           /\ currentDomain = last.pre.currentDomain
           /\ last.remote = 0

\* a tool of the customers domain invoked in the tickets domain, with
\* credentials configured
C2_Witness ==
    /\ IsCall("syncro_customers_list")
    /\ last.pre.currentDomain = "tickets"
    /\ PreCredentials
    /\ last.isError

\* C3: with credentials resolvable, navigate(d) for a domain d succeeds
\* from any state, leaves the state at InDomain(d), and list-tools on the
\* state it leaves returns exactly back, status and the tools of d.
C3_NavigateEntersDomain ==
    (IsCall("syncro_navigate") /\ last.arg \in DomainNames /\ PreCredentials)
        => /\ ~last.isError
           /\ currentDomain = last.arg
           /\ ~GetToolsForState(S).threw
           /\ ExactlyTools(GetToolsForState(S).tools,
                           {"syncro_back", "syncro_status"}
                               \cup Range(ToolsOfDomain(last.arg)))

\* navigated from one domain straight into another
C3_Witness ==
    /\ IsCall("syncro_navigate")
    /\ last.pre.currentDomain = "tickets"
    /\ last.arg = "assets"
    /\ currentDomain = "assets"
    /\ ~last.isError

\* C4: navigate with a domain value outside the closed set leaves the
\* navigation state unchanged and returns an error result that lists the
\* domains in the order customers, tickets, assets, contacts, invoices.
C4_InvalidDomainRejected ==
    (/\ IsCall("syncro_navigate")
     /\ last.arg # ArgsAbsent
     /\ last.arg \notin {"customers", "tickets", "assets", "contacts",
                         "invoices"})
        => /\ last.isError
           /\ currentDomain = last.pre.currentDomain
           /\ Contains(last.text, CanonicalDomainList)

\* an unknown domain requested inside a domain, with credentials
C4_Witness ==
    /\ IsCall("syncro_navigate")
    /\ last.arg = "unknown"
    /\ last.pre.currentDomain = "tickets"
    /\ PreCredentials
    /\ last.isError

\* C5: with no credential tuple resolvable, navigate(d) for a domain d
\* returns an error result and leaves the navigation state as it was.
C5_NavigateWithoutCredentials ==
    (IsCall("syncro_navigate") /\ last.arg \in DomainNames /\ ~PreCredentials)
        => /\ last.isError
           /\ currentDomain = last.pre.currentDomain

\* refused inside a domain: the credentials were removed after navigating
C5_Witness ==
    /\ IsCall("syncro_navigate")
    /\ last.arg = "customers"
    /\ ~PreCredentials
    /\ last.pre.currentDomain = "tickets"
    /\ last.isError

\* C6: back succeeds in every state, leaves the state at the root, reports
\* the domain that was left ("root" at the root), and list-tools on the
\* state it leaves returns exactly navigate and status.
C6_BackReturnsToRoot ==
    IsCall("syncro_back")
        => /\ ~last.isError
           /\ currentDomain = NULL
           /\ Contains(last.text,
                       <<"Navigated back from ",
                         IF last.pre.currentDomain = NULL THEN "root"
                         ELSE last.pre.currentDomain>>)
           /\ ~GetToolsForState(S).threw
           /\ ExactlyTools(GetToolsForState(S).tools,
                           {"syncro_navigate", "syncro_status"})

\* back invoked at the root
C6_Witness ==
    /\ IsCall("syncro_back")
    /\ last.pre.currentDomain = NULL
    /\ ~last.isError

\* C7: status succeeds in every state, reports the navigation state and
\* whether credentials are configured at the call, and changes neither the
\* navigation state nor the handler cache nor the client cache.
C7_StatusReportsAndKeepsState ==
    IsCall("syncro_status")
        => /\ ~last.isError
           /\ Contains(last.text,
                       <<IF last.pre.currentDomain = NULL
                         THEN "(none - at main menu)"
                         ELSE last.pre.currentDomain,
                         "\nCredentials: ",
                         IF PreCredentials THEN "Configured"
                         ELSE "NOT CONFIGURED - Please set SYNCRO_API_KEY environment variable">>)
           /\ currentDomain = last.pre.currentDomain
           /\ domainCache = last.pre.domainCache
           /\ client = last.pre.client
           /\ credentials = last.pre.credentials

\* status inside a domain, the credentials removed while a client built
\* from them is still cached
C7_Witness ==
    /\ IsCall("syncro_status")
    /\ last.pre.currentDomain = "tickets"
    /\ ~PreCredentials
    /\ client # NullClient

\* C8: the navigation state is the root at the start, and an operation
\* that changes it is a navigate or a back call.
C8_OnlyNavigateAndBackMove ==
    /\ last.op = "init" => currentDomain = NULL
    /\ currentDomain # last.pre.currentDomain
           => (last.op = "call"
               /\ last.name \in {"syncro_navigate", "syncro_back"})

\* a request rejected with 401 while a domain is selected
C8_Witness ==
    /\ last.op = "unauthorized"
    /\ last.pre.currentDomain = "tickets"
    /\ currentDomain = "tickets"

\* C9: a getClient call that resolves the tuple of the cached handle
\* returns that handle; one that resolves a tuple differing in either field
\* returns an instance constructed by this call, which is none of the
\* instances handed out before; the handle returned is the cached one.
C9_ClientCachedPerTuple ==
    (last.op = "getClient" /\ ~last.threw)
        => /\ client = last.handle
           /\ credentials = last.resolved
           /\ last.pre.client # NullClient =>
                IF last.resolved = last.pre.credentials
                THEN last.handle = last.pre.client
                ELSE last.handle.id \notin 0..(last.pre.nextHandle - 1)

\* the third instance is constructed for the tuple of the first one, which
\* the second one had replaced
C9_Witness ==
    /\ last.op = "getClient"
    /\ ~last.threw
    /\ last.pre.client.id = 1
    /\ last.pre.credentials = [apiKey |-> "k1", subdomain |-> "s1"]
    /\ last.resolved = [apiKey |-> "k1", subdomain |-> UNSET]
    /\ last.handle.id = 2

\* C10: with the API key unset or empty, getClient fails with the
\* "no credentials" error, constructs nothing and leaves the cached handle
\* and the cached tuple as they were.
C10_GetClientWithoutCredentials ==
    (last.op = "getClient" /\ last.pre.env.apiKey \in {UNSET, ""})
        => /\ last.threw
           /\ last.text = <<"No API credentials provided. Please configure SYNCRO_API_KEY environment variable.">>
           /\ last.handle = NullClient
           /\ nextHandle = last.pre.nextHandle
           /\ client = last.pre.client
           /\ credentials = last.pre.credentials

\* the key is empty and a handle built earlier stays cached
C10_Witness ==
    /\ last.op = "getClient"
    /\ last.threw
    /\ last.pre.env.apiKey = ""
    /\ client # NullClient

C12_GatewayCredentialsRequestScoped ==
    (last.via = "http" /\ isGatewayMode /\ last.op \in {"list", "call"})
        => GetCredentials(env) = GetCredentials(last.pre.env)

IsDomainToolCall ==
    /\ last.op = "call"
    /\ last.name \notin ReservedNames
    /\ last.pre.currentDomain # NULL
    /\ last.name \in Range(ToolsOfDomain(last.pre.currentDomain))

\* C15: a failure raised while a tool of the selected domain runs (the
\* remote call rejects with an API, rate-limit or network error, the client
\* cannot be constructed, the argument bag cannot be read) is returned as a
\* result with the error flag set whose text contains the failure's message.
C15_HandlerFailuresCaught ==
    IsDomainToolCall
        => /\ ~PreCredentials
                => /\ last.isError
                   /\ Contains(last.text, <<"No API credentials provided. Please configure SYNCRO_API_KEY environment variable.">>)
           /\ (PreCredentials /\ last.arg = ArgsAbsent)
                => /\ last.isError
                   /\ Contains(last.text, <<"Cannot read properties of undefined">>)
           /\ (PreCredentials /\ last.arg # ArgsAbsent /\ last.outcome # "ok")
                => /\ last.isError
                   /\ last.remote = 1
                   /\ Contains(last.text, <<last.outcome>>)

\* tickets_get fails with "Ticket not found" at the remote API
C15_Witness ==
    /\ IsCall("syncro_tickets_get")
    /\ last.outcome = "Ticket not found"
    /\ last.remote = 1
    /\ last.isError

\* C16: a tool of the selected domain invoked with no credential tuple
\* resolvable returns an error result with the "configure SYNCRO_API_KEY"
\* guidance, issues no remote call and leaves the state at InDomain(d); the
\* state it leaves answers a status and a list-tools request as before.
C16_DomainToolWithoutCredentials ==
    (IsDomainToolCall /\ ~PreCredentials)
        => /\ last.isError
           /\ Contains(last.text, <<"No API credentials provided. Please configure SYNCRO_API_KEY environment variable.">>)
           /\ last.remote = 0
           /\ last.used = NullClient
           /\ currentDomain = last.pre.currentDomain
           /\ ~Status(S).isError
           /\ ~GetToolsForState(S).threw
           /\ ExactlyTools(GetToolsForState(S).tools,
                           VisibleTools(last.pre.currentDomain))

\* the credentials were removed after navigating, a client built from them
\* is still cached
C16_Witness ==
    /\ IsCall("syncro_tickets_get")
    /\ last.pre.currentDomain = "tickets"
    /\ ~PreCredentials
    /\ last.pre.client # NullClient
    /\ last.isError

\* C19: getDomainHandler(d) returns a handler and leaves it stored under d;
\* when d's handler is already stored it returns that very handler; the
\* entries of the other domains are untouched. Hence calls one after
\* another with no clearDomainCache between return one and the same handler.
C19_ResolveMemoizes ==
    (last.op = "resolve" /\ last.arg \in DomainNames)
        => /\ ~last.threw
           /\ last.handler # NoHandler
           /\ domainCache[last.arg] = last.handler
           /\ last.pre.domainCache[last.arg] # NoHandler
                => last.handler = last.pre.domainCache[last.arg]
           /\ \A d \in DomainNames \ {last.arg} :
                domainCache[d] = last.pre.domainCache[d]

\* resolved again while it and another domain's handler are cached
C19_Witness ==
    /\ last.op = "resolve"
    /\ last.arg = "tickets"
    /\ last.pre.domainCache["tickets"] = "ticketsHandler"
    /\ last.pre.domainCache["assets"] = "assetsHandler"
    /\ last.handler = "ticketsHandler"

\* C20: clearDomainCache empties the handler cache for every domain and
\* leaves the navigation state, the client cache and process.env as they
\* were; list-tools on the state it leaves returns the visible set of the
\* unchanged navigation state.
C20_ResetOnlyEmptiesHandlerCache ==
    last.op = "clearDomainCache"
        => /\ \A d \in DomainNames : domainCache[d] = NoHandler
           /\ currentDomain = last.pre.currentDomain
           /\ client = last.pre.client
           /\ credentials = last.pre.credentials
           /\ env = last.pre.env
           /\ nextHandle = last.pre.nextHandle
           /\ ~GetToolsForState(S).threw
           /\ ExactlyTools(GetToolsForState(S).tools,
                           VisibleTools(last.pre.currentDomain))

\* reset inside a domain with its handler and a client cached
C20_Witness ==
    /\ last.op = "clearDomainCache"
    /\ last.pre.currentDomain = "tickets"
    /\ last.pre.domainCache["tickets"] = "ticketsHandler"
    /\ client # NullClient

\* C13: a request's remote call runs on a client that carries the
\* credential tuple process.env held when that request's getClient read it,
\* which is the tuple of the gateway request applied last before that read
\* and need not be the tuple the request itself presented.
C13_RemoteCallUsesTupleAppliedLast ==
    \A r \in Slots :
        requests[r].remote = 1
            => /\ requests[r].used # NullClient
               /\ requests[r].used.apiKey = requests[r].envAtRead.apiKey
               /\ requests[r].used.subdomain
                      = requests[r].envAtRead.subdomain

\* a request that presented k1 has its remote call issued with k2, the key
\* of the request that arrived after it and is still in flight
C13_Witness ==
    /\ isGatewayMode
    /\ requests[1].pc = "awaitRemote"
    /\ requests[1].hdrKey = "k1"
    /\ requests[1].used.apiKey = "k2"
    /\ requests[2].hdrKey = "k2"
    /\ requests[2].pc \notin {"idle", "done"}
    /\ requests[2].seq > requests[1].seq

\* C14: the navigation state is one value for all requests: a list-tools
\* request returns the visible set of the navigation state that was current
\* when its handler started, and a tool of a domain is dispatched only when
\* that domain was selected then, whichever request had navigated.
C14_NavigationStateShared ==
    \A r \in Slots :
        (requests[r].pc = "done" /\ requests[r].status = 200)
            => /\ requests[r].kind = "list"
                    => /\ ~requests[r].threw
                       /\ ExactlyTools(requests[r].tools,
                                       VisibleTools(requests[r].startDomain))
               /\ (requests[r].kind = "call"
                   /\ requests[r].name \notin ReservedNames)
                    => IF requests[r].startDomain # NULL
                          /\ requests[r].name \in
                               Range(ToolsOfDomain(requests[r].startDomain))
                       THEN ~Contains(requests[r].text, <<"Unknown tool: ">>)
                       ELSE requests[r].isError /\ requests[r].remote = 0

\* a list-tools request arrived at the root; before its handler started a
\* request that arrived after it navigated to tickets, and the list shows
\* the tickets tools
C14_Witness ==
    /\ requests[1].kind = "list"
    /\ requests[1].pc = "done"
    /\ requests[1].arrivalDomain = NULL
    /\ requests[1].tools = <<backTool, statusTool>> \o tickets_getTools
    /\ requests[2].name = "syncro_navigate"
    /\ requests[2].seq > requests[1].seq
    /\ requests[2].pc = "done"

\* C18 (as claimed): on the stdio channel the responses are sent in the
\* order in which their requests arrived.
C18_ResponsesInArrivalOrder ==
    \A i, j \in 1..Len(responses) :
        i < j => responses[i] < responses[j]

\* C21: the "Unknown domain" failure of getDomainHandler is not reached
\* through list-tools or a tool invocation: the selected domain is always
\* one the registry can load, list-tools never throws and no call-tool
\* result reports an unknown domain.
C21_UnknownDomainUnreachable ==
    /\ currentDomain # NULL =>
          /\ currentDomain \in {"customers", "tickets", "assets", "contacts",
                                "invoices"}
          /\ ImportHandler(currentDomain) # NoHandler
    /\ last.op = "list" => ~last.threw
    /\ last.op = "call" => ~Contains(last.text, <<"Unknown domain: ">>)

\* the tools of the last domain of the set are listed right after the
\* handler cache was emptied, so its handler is loaded for the list
C21_Witness ==
    /\ last.op = "list"
    /\ last.pre.currentDomain = "invoices"
    /\ last.pre.domainCache["invoices"] = NoHandler
    /\ domainCache["invoices"] = "invoicesHandler"
    /\ ~last.threw

\* C23: a tool invocation issues at most one remote API call; when that
\* call fails the result carries the error flag and the remote error's
\* message and exactly one call was issued.
C23_RemoteErrorNotRetried ==
    last.op = "call"
        => /\ last.remote \in {0, 1}
           /\ (IsDomainToolCall /\ last.remote = 1 /\ last.outcome # "ok")
                => /\ last.isError
                   /\ last.text = <<"Error: ", last.outcome>>

\* the remote call of tickets_get times out
C23_Witness ==
    /\ IsCall("syncro_tickets_get")
    /\ last.outcome = "ETIMEDOUT"
    /\ last.remote = 1
    /\ last.text = <<"Error: ", "ETIMEDOUT">>

C25_ResolvedTupleEqualsHeaders ==
    (last.via = "http" /\ isGatewayMode /\ last.op \in {"list", "call"})
        => GetCredentials(env)
             = [apiKey |-> last.hdrKey,
                subdomain |-> IF last.hdrSub \in {UNSET, ""}
                              THEN UNSET ELSE last.hdrSub]

\* C30: clearClient leaves neither a handle nor a tuple cached, and a
\* successful getClient on an empty cache constructs a new instance, which
\* is none of the instances handed out before, and caches it.
C30_ClearClientForcesNewInstance ==
    /\ last.op = "clearClient"
          => (client = NullClient /\ credentials = NullCreds)
    /\ (last.op = "getClient" /\ ~last.threw /\ last.pre.client = NullClient)
          => /\ last.handle.id = last.pre.nextHandle
             /\ last.handle.id \notin 0..(last.pre.nextHandle - 1)
             /\ nextHandle = last.pre.nextHandle + 1
             /\ client = last.handle

\* the cache was cleared after two instances had been handed out; the call
\* constructs the third
C30_Witness ==
    /\ last.op = "getClient"
    /\ ~last.threw
    /\ last.pre.client = NullClient
    /\ last.pre.credentials = NullCreds
    /\ last.pre.nextHandle = 2
    /\ last.handle.id = 2

\* a handler was called directly with a name outside its tool list
IsForeignHandleCall ==
    /\ last.op = "handleCall"
    /\ last.name \notin Range(HandlerTools(last.handler))

\* C29 (as claimed): for every handler and every tool name outside its tool
\* list, handleCall returns a result with the error flag set and the
\* "Unknown <domain> tool" message, and issues no remote API operation.
C29_UnknownToolReturnsError ==
    IsForeignHandleCall
        => /\ ~last.threw
           /\ last.isError
           /\ last.text = <<"Unknown ", HandlerNoun(last.handler), " tool: ",
                            last.name>>
           /\ last.remote = 0

\* C29 (amended): with a credential tuple resolvable the call returns the
\* "Unknown <domain> tool" error result; with none it throws the "No API
\* credentials" error; in both cases no remote API operation is issued.
C29_UnknownToolAfterGetClient ==
    IsForeignHandleCall
        => /\ last.remote = 0
           /\ IF PreCredentials
              THEN /\ ~last.threw
                   /\ last.isError
                   /\ last.text = <<"Unknown ",
                                    CASE last.handler = "customersHandler" -> "customer"
                                      [] last.handler = "ticketsHandler" -> "ticket"
                                      [] last.handler = "assetsHandler" -> "asset"
                                      [] last.handler = "contactsHandler" -> "contact"
                                      [] last.handler = "invoicesHandler" -> "invoice",
                                    " tool: ", last.name>>
              ELSE /\ last.threw
                   /\ last.text = <<"No API credentials provided. Please configure SYNCRO_API_KEY environment variable.">>

\* the contacts handler is asked for a tool of the tickets domain
C29_Witness ==
    /\ last.op = "handleCall"
    /\ last.handler = "contactsHandler"
    /\ last.name = "syncro_tickets_get"
    /\ PreCredentials
    /\ last.isError

\* C26 (as claimed): a getClient call that starts while another one for
\* the same credential tuple is suspended at the client library import is
\* handed the same instance as that one.
C26_OverlappingGetClientSameHandle ==
    \A r1, r2 \in Slots :
        (/\ r1 # r2
         /\ requests[r2].joinedSeq # 0
         /\ requests[r2].joinedSeq = requests[r1].seq
         /\ requests[r2].creds = requests[r1].creds
         /\ requests[r1].clientLocal # NullClient
         /\ requests[r2].clientLocal # NullClient)
            => requests[r1].clientLocal.id = requests[r2].clientLocal.id

\* C27 (as claimed): a domain's handler is loaded at most once: no import
\* of a domain module is in flight while another import of the same module
\* is in flight or after the handler has been stored.
C27_LoadAtMostOnce ==
    \A r1 \in Slots :
        requests[r1].pc = "importing"
            => /\ domainCache[requests[r1].domain] = NoHandler
               /\ \A r2 \in Slots \ {r1} :
                    requests[r2].pc = "importing"
                        => requests[r2].domain # requests[r1].domain

\* C27 (amended): every getDomainHandler call that has returned, overlapping
\* or not, returned the one handler of its domain's module, and that
\* handler is stored under the domain.
C27_OverlappingResolveSameHandler ==
    /\ \A r \in Slots :
          (requests[r].domain # NULL /\ requests[r].handler # NoHandler)
              => /\ domainCache[requests[r].domain] = requests[r].handler
                 /\ requests[r].handler
                      = (CASE requests[r].domain = "customers" -> "customersHandler"
                           [] requests[r].domain = "tickets" -> "ticketsHandler"
                           [] requests[r].domain = "assets" -> "assetsHandler"
                           [] requests[r].domain = "contacts" -> "contactsHandler"
                           [] requests[r].domain = "invoices" -> "invoicesHandler")
    /\ \A r1, r2 \in Slots :
          (/\ requests[r1].domain = requests[r2].domain
           /\ requests[r1].handler # NoHandler
           /\ requests[r2].handler # NoHandler)
              => requests[r1].handler = requests[r2].handler

\* one call has imported and stored the tickets handler while the import
\* of a call that overlapped it is still in flight
C27_Witness ==
    /\ requests[1].pc = "resolved"
    /\ requests[1].domain = "tickets"
    /\ requests[1].handler = "ticketsHandler"
    /\ requests[2].pc = "importing"
    /\ requests[2].domain = "tickets"
    /\ domainCache["tickets"] = "ticketsHandler"

\* C28 (as claimed): the "unknown tool" error of a name that is no tool of
\* the domain selected when the invocation started names that domain and
\* syncro_back, or tells to navigate first when it started at the root.
C28_UnknownToolMessageMatchesState ==
    \A r \in Slots :
        (/\ requests[r].pc = "done"
         /\ requests[r].status = 200
         /\ requests[r].kind = "call"
         /\ requests[r].name \notin ReservedNames
         /\ requests[r].name \notin VisibleTools(requests[r].startDomain))
            => /\ requests[r].isError
               /\ requests[r].text =
                    IF requests[r].startDomain # NULL
                    THEN <<"Unknown tool: ", requests[r].name,
                           ". You are currently in the ",
                           requests[r].startDomain,
                           " domain. Use syncro_back to return to the main menu.">>
                    ELSE <<"Unknown tool: ", requests[r].name,
                           ". Use syncro_navigate to select a domain first.">>

\* C22 (as claimed): whenever the process has exited after a signal, an
\* uncaught exception or an unhandled rejection, the HTTP listener (when
\* there is one) was closed first, the protocol server second, and nothing
\* is still open.
C22_ExitAfterOrderedRelease ==
    proc.exited
        => /\ proc.httpServer \in {"none", "closed"}
           /\ proc.server = "closed"
           /\ proc.released = IF proc.httpServer = "none"
                              THEN <<"server">>
                              ELSE <<"httpServer", "server">>

\* values a caller may pass as a domain: the members, near misses and the
\* values outside the set
DomainCandidates ==
    DomainNames \cup NonMembers \cup {"Tickets", "ticket", "", "invoices "}

\* C31: isDomainName accepts exactly the values getAvailableDomains lists,
\* the list is customers, tickets, assets, contacts, invoices in this
\* order, and navigate to any listed domain (with credentials) finds a
\* handler for it in the registry.
C31_ClosedDomainSetConsistent ==
    /\ GetAvailableDomains
          = <<"customers", "tickets", "assets", "contacts", "invoices">>
    /\ \A v \in DomainCandidates :
          IsDomainName(v) <=> v \in Range(GetAvailableDomains)
    /\ \A d \in Range(GetAvailableDomains) :
          /\ ImportHandler(d) \in Handlers
          /\ (IsCall("syncro_navigate") /\ last.arg = d /\ PreCredentials)
                => /\ ~last.isError
                   /\ currentDomain = d
                   /\ domainCache[d] = ImportHandler(d)
    /\ (IsCall("syncro_navigate") /\ last.arg \in NonMembers)
          => /\ last.isError
             /\ Contains(last.text, Join(GetAvailableDomains, ", "))

\* navigate to the last listed domain found its handler
C31_Witness ==
    /\ IsCall("syncro_navigate")
    /\ last.arg = "invoices"
    /\ ~last.isError
    /\ currentDomain = "invoices"
    /\ domainCache["invoices"] = "invoicesHandler"

\* C32: under every interleaving of getClient and clearClient calls the
\* cache is one slot, and a handle in it was constructed from exactly the
\* tuple recorded beside it, in both fields.
C32_CachedHandleMatchesCachedTuple ==
    /\ client \in {NullClient}
                     \cup [id : 0..(MaxHandles - 1), apiKey : ApiKeys,
                           subdomain : Subdomains \cup {UNSET}]
    /\ client # NullClient
          => /\ credentials # NullCreds
             /\ client.apiKey = credentials.apiKey
             /\ client.subdomain = credentials.subdomain

\* the cache was refilled while another call, for another tuple, is still
\* suspended at the import
C32_Witness ==
    /\ client # NullClient
    /\ client.id >= 1
    /\ \E r \in Slots :
          /\ requests[r].pc = "constructing"
          /\ requests[r].creds # credentials

\* C33: under every interleaving of getClient calls and credential changes
\* the handle a call returns was constructed from the tuple this call
\* resolved at its start.
C33_ReturnedHandleFromOwnTuple ==
    \A r \in Slots :
        (requests[r].kind = "getClient"
            /\ requests[r].clientLocal # NullClient)
            => /\ requests[r].creds = GetCredentials(requests[r].envAtRead)
               /\ requests[r].clientLocal.apiKey = requests[r].creds.apiKey
               /\ requests[r].clientLocal.subdomain
                     = requests[r].creds.subdomain

\* two overlapping calls for different tuples have both returned: the one
\* that started first constructed its handle last
C33_Witness ==
    \E r1, r2 \in Slots :
        /\ requests[r1].kind = "getClient" /\ requests[r1].pc = "done"
        /\ requests[r2].kind = "getClient" /\ requests[r2].pc = "done"
        /\ requests[r1].seq < requests[r2].seq
        /\ requests[r1].clientLocal # NullClient
        /\ requests[r2].clientLocal # NullClient
        /\ requests[r1].clientLocal.id > requests[r2].clientLocal.id
        /\ requests[r1].creds # requests[r2].creds

\* C34 (as claimed): when the CallTool handler calls handleCall for a tool
\* of domain d, the navigation state is InDomain(d) at that moment, whatever
\* other requests did since the handler read the state.
C34_ToolRunsOnlyInItsDomain ==
    \A r \in Slots :
        requests[r].invokeDomain # "-"
            => /\ requests[r].invokeDomain # NULL
               /\ requests[r].name
                     \in Range(ToolsOfDomain(requests[r].invokeDomain))

\* C35: a gateway request answered 401 leaves SYNCRO_API_KEY,
\* SYNCRO_SUBDOMAIN, the cached client and its recorded tuple as they were
\* before the request.
C35_UnauthorizedChangesNothing ==
    (last.via = "http" /\ last.status = 401)
        => /\ isGatewayMode
           /\ env.apiKey = last.pre.env.apiKey
           /\ env.subdomain = last.pre.env.subdomain
           /\ client = last.pre.client
           /\ credentials = last.pre.credentials
           /\ GetCredentials(env) = GetCredentials(last.pre.env)

\* rejected while a client is cached, the request carrying a subdomain
\* header that differs from the configured one
C35_Witness ==
    /\ last.via = "http"
    /\ last.status = 401
    /\ last.hdrSub = "s1"
    /\ last.pre.env.subdomain # "s1"
    /\ last.pre.env.apiKey \notin {UNSET, ""}
    /\ last.pre.client # NullClient

\* C36: under every interleaving of navigate, back and list-tools requests
\* a list-tools response is the tool list of one navigation state, the one
\* its handler read when it started: navigate and status, or back, status
\* and the tools of one domain, never a mixture.
C36_ListToolsFromOneState ==
    \A r \in Slots :
        (requests[r].kind = "list" /\ requests[r].pc = "done"
            /\ requests[r].status = 200)
            => /\ ~requests[r].threw
               /\ requests[r].tools
                    = (IF requests[r].startDomain = NULL
                       THEN <<navigateTool, statusTool>>
                       ELSE <<backTool, statusTool>>
                               \o ToolsOfDomain(requests[r].startDomain))
               /\ \E cd \in DomainNames \cup {NULL} :
                     Range(requests[r].tools) = VisibleTools(cd)
               /\ navigateTool \in Range(requests[r].tools)
                     => Range(requests[r].tools) \cap
                           ({backTool} \cup AllDomainTools) = {}
               /\ \A d1, d2 \in DomainNames :
                     (/\ Range(requests[r].tools)
                            \cap Range(ToolsOfDomain(d1)) # {}
                      /\ Range(requests[r].tools)
                            \cap Range(ToolsOfDomain(d2)) # {})
                        => d1 = d2

\* a list-tools request started in tickets; a back request that arrived
\* after it was answered before it, and the list still is the tickets list
C36_Witness ==
    /\ requests[1].kind = "list"
    /\ requests[1].pc = "done"
    /\ requests[1].startDomain = "tickets"
    /\ requests[1].tools = <<backTool, statusTool>> \o tickets_getTools
    /\ requests[2].name = "syncro_back"
    /\ requests[2].pc = "done"
    /\ requests[2].seq > requests[1].seq
    /\ currentDomain = NULL
    /\ \E i, j \in 1..Len(responses) :
          /\ i < j
          /\ responses[i] = requests[2].seq
          /\ responses[j] = requests[1].seq

\* C37 (as claimed): when navigate returns an error result, whatever the
\* cause, the navigation state is the one its handler found. Stated for the
\* request that arrived last on the stdio channel: every write of another
\* request to the navigation state precedes the start of its handler.
C37_NavigateErrorKeepsState ==
    \A r \in Slots :
        (/\ requests[r].pc = "done"
         /\ requests[r].name = "syncro_navigate"
         /\ requests[r].isError
         /\ requests[r].seq = arrived)
            => currentDomain = requests[r].startDomain

\* C38: the tool lists of the five handlers are pairwise disjoint, hold no
\* reserved name and no name twice, and every listed name has a case in its
\* handler; list-tools in a domain returns back, status and the handler's
\* list in its declaration order every time, and a listed tool that is
\* called in its domain reaches its one remote operation.
C38_ToolNamesUnambiguous ==
    /\ \A h1, h2 \in Handlers :
          h1 # h2 => Range(HandlerTools(h1)) \cap Range(HandlerTools(h2)) = {}
    /\ \A h \in Handlers :
          /\ Range(HandlerTools(h))
                \cap {navigateTool, backTool, statusTool} = {}
          /\ Cardinality(Range(HandlerTools(h))) = Len(HandlerTools(h))
          /\ Range(HandlerTools(h)) = HandlerCases(h)
    /\ (last.op = "list" /\ last.pre.currentDomain # NULL)
          => last.tools = <<backTool, statusTool>>
                \o HandlerTools(ImportHandler(last.pre.currentDomain))
    /\ (/\ last.op = "call"
        /\ last.pre.currentDomain # NULL
        /\ last.name \in Range(HandlerTools(
                                 ImportHandler(last.pre.currentDomain)))
        /\ PreCredentials
        /\ last.arg # ArgsAbsent)
          => /\ last.remote = 1
             /\ ~Contains(last.text, <<"Unknown tool: ">>)
             /\ \A h \in Handlers :
                   ~Contains(last.text, <<"Unknown ", HandlerNoun(h), " tool: ">>)

\* a tool of the invoices list called in the invoices domain ran its
\* operation
C38_Witness ==
    /\ IsCall("syncro_invoices_list")
    /\ last.pre.currentDomain = "invoices"
    /\ last.remote = 1
    /\ ~last.isError

\* C39: every request is answered exactly once: no arrival number occurs
\* twice among the responses, a request whose handler has not returned
\* eventually has its response sent, and in the end every request that
\* arrived has been answered, whatever the other requests do meanwhile.
C39_EveryInvocationAnswered ==
    /\ [](\A i, j \in 1..Len(responses) :
             i # j => responses[i] # responses[j])
    /\ \A r \in Slots :
          (requests[r].pc \notin {"idle", "done"})
              ~> (requests[r].pc = "done")
    /\ <>[](Len(responses) = arrived)

\* a domain tool call was answered with the error of a failed handler load
\* after a navigate that arrived later had been answered
C39_Witness ==
    \E r1, r2 \in Slots :
        /\ requests[r1].pc = "done"
        /\ requests[r1].name = "syncro_tickets_get"
        /\ requests[r1].isError
        /\ requests[r1].text = <<"Error: ">> \o ImportErrorMessage
        /\ requests[r2].pc = "done"
        /\ requests[r2].name = "syncro_navigate"
        /\ requests[r2].seq > requests[r1].seq
        /\ \E i, j \in 1..Len(responses) :
              /\ i < j
              /\ responses[i] = requests[r2].seq
              /\ responses[j] = requests[r1].seq

====
